---- MODULE Spec2Model ----
(***************************************************************************)
(* A model of the grammar update script of slua.dev: the trie-based        *)
(* string-set-to-regex compiler createOptimizedRegex, and a matcher for    *)
(* the regular-expression dialect its patterns are written in.             *)
(*                                                                         *)
(* A JavaScript string is a sequence of one-character strings, so that a   *)
(* pattern is compared character by character: "(?:" is <<"(","?",":">>.   *)
(***************************************************************************)
EXTENDS Integers, Sequences, FiniteSets, TLC

VARIABLES
    strings,        \* first argument of the call: [isArray, items]
    options,        \* second argument: [wordBoundaries, caseInsensitive], each "undefined" | "true" | "false"
    pc,             \* position in createOptimizedRegex
    uniqueStrings,  \* const uniqueStrings
    root,           \* const root: the trie of the call
    pattern,        \* const pattern
    result,         \* the returned pattern
    error,          \* the message of the thrown Error, "" when none
    earlier,        \* history: <<>> or one completed earlier call, <<[strings, options, pc, result,
                    \* error, between]>>, between telling that another call ended since
    step,           \* position in the script that runs, "idle" when none does
    lsl,            \* const lsl: the LSL definitions read
    slua,           \* const slua: the SLua definitions read
    lslGrammar,     \* const lslGrammar: the LSL grammar document in memory
    sluaGrammar,    \* const sluaGrammar: the SLua grammar document in memory
    standard,       \* const standard: the rules of the SLua standard library
    lslFile,        \* the document in the file at lslGrammarPath
    sluaFile,       \* the document in the file at sluaGrammarPath
    failure,        \* the uncaught exception that ended the script, "" when none
    build,          \* buildTrie step by step: [i, j, node], the string, the characters done, const node
    stack,          \* trieToRegex step by step: the frames of the calls under way, [path, next, alternatives]
    visits,         \* history: the nodes trieToRegex was called with, in order
    wait,           \* second argument of debounce
    timeout,        \* let timeout of debounce: [kind, id], undefined, null or the id of a timer
    timers,         \* the timers the environment holds: [id, due, context, args]
    nextId,         \* the id the next setTimeout returns
    now,            \* the time
    search,         \* search.value
    log             \* history: the calls of the debounced function and of func, in order

callVars == <<strings, options, pc, uniqueStrings, root, pattern, result, error, earlier>>

scriptVars == <<step, lsl, slua, lslGrammar, sluaGrammar, standard, lslFile, sluaFile, failure>>

walkVars == <<build, stack, visits>>

debounceVars == <<wait, timeout, timers, nextId, now, search, log>>

restVars == <<walkVars, debounceVars>>

vars == <<strings, options, pc, uniqueStrings, root, pattern, result, error, earlier,
          step, lsl, slua, lslGrammar, sluaGrammar, standard, lslFile, sluaFile, failure,
          build, stack, visits,
          wait, timeout, timers, nextId, now, search, log>>

----------------------------------------------------------------------------
(* Characters *)

UpperLetters == <<"A","B","C","D","E","F","G","H","I","J","K","L","M",
                  "N","O","P","Q","R","S","T","U","V","W","X","Y","Z">>

LowerLetters == <<"a","b","c","d","e","f","g","h","i","j","k","l","m",
                  "n","o","p","q","r","s","t","u","v","w","x","y","z">>

Digits == {"0","1","2","3","4","5","6","7","8","9"}

Range(s) == {s[i] : i \in 1..Len(s)}

\* String.prototype.toLowerCase on one character
LowerChar(c) ==
    IF c \in Range(UpperLetters)
    THEN LowerLetters[CHOOSE i \in 1..Len(UpperLetters) : UpperLetters[i] = c]
    ELSE c

\* A faulty variant of toLowerCase: the string is left as it is
KeepCase(s) == s

toLowerCase(s) == [i \in 1..Len(s) |-> LowerChar(s[i])]

\* Values of the input array: a string, or a value that is no string
Str(chars) == [kind |-> "string", chars |-> chars]

NumberValue == [kind |-> "number", chars |-> <<>>]

NullValue == [kind |-> "null", chars |-> <<>>]

\* ToBoolean of a value: "" and null are falsy, a non-zero number is truthy
Truthy(v) ==
    CASE v.kind = "string" -> v.chars # <<>>
      [] v.kind = "number" -> TRUE
      [] OTHER -> FALSE

----------------------------------------------------------------------------
(* The trie: a node per path from the root; children holds the keys of the *)
(* node's Map in insertion order.                                          *)

TrieNode == [children |-> <<>>, isEndOfWord |-> FALSE]

\* A faulty variant of NewRoot: the trie of the call before is taken up again
StaleRoot == root

\* A faulty variant of HasChild: no child is found
NeverHasChild(node, char) == FALSE

NewRoot == (<<>> :> TrieNode)

HasChild(node, char) == \E i \in 1..Len(node.children) : node.children[i] = char

\* A faulty variant of AddChild: the new key is put before the others
AddChildFirst(children, char) == <<char>> \o children

\* Line 55: Map.set of a new key, which a Map keeps after the keys it has
AddChild(children, char) == Append(children, char)

\* A faulty variant of Grow: the child is made anew at every insertion
GrowAlways(trie, path, char) ==
    (Append(path, char) :> TrieNode)
    @@ [trie EXCEPT ![path].children = IF HasChild(trie[path], char) THEN @ ELSE AddChild(@, char)]

\* Lines 54-56: the child of path by char is created when there is none
Grow(trie, path, char) ==
    IF HasChild(trie[path], char)
    THEN trie
    ELSE [trie EXCEPT ![path].children = AddChild(@, char)] @@ (Append(path, char) :> TrieNode)

\* A faulty variant of MarkEnd: the node before the last is marked
MarkParent(trie, path) ==
    [trie EXCEPT ![SubSeq(path, 1, Len(path) - 1)].isEndOfWord = TRUE]

\* A faulty variant of MarkEnd: no node is marked
MarkNone(trie, path) == trie

\* Line 59
MarkEnd(trie, path) == [trie EXCEPT ![path].isEndOfWord = TRUE]

RECURSIVE InsertFrom(_, _, _)
InsertFrom(trie, path, rest) ==
    IF rest = <<>>
    THEN MarkEnd(trie, path)
    ELSE LET char == Head(rest)
         IN  InsertFrom(Grow(trie, path, char), Append(path, char), Tail(rest))

RECURSIVE InsertAll(_, _, _)
InsertAll(trie, strs, caseInsensitive) ==
    IF strs = <<>>
    THEN trie
    ELSE LET str == Head(strs)
             processedStr == IF caseInsensitive THEN toLowerCase(str) ELSE str
         IN  InsertAll(InsertFrom(trie, <<>>, processedStr), Tail(strs), caseInsensitive)

buildTrie(strs, caseInsensitive) == InsertAll(NewRoot, strs, caseInsensitive)

----------------------------------------------------------------------------
(* Escaping and the conversion of the trie to a pattern *)

SpecialChars == {".", "*", "+", "?", "^", "$", "{", "}", "(", ")", "|", "[", "]", "\\"}

\* A faulty variant of escapeRegexChar: nothing is escaped
NoEscape(char) == <<char>>

escapeRegexChar(char) ==
    IF char \in SpecialChars THEN <<"\\", char>> ELSE <<char>>

RECURSIVE Join(_, _)
Join(parts, sep) ==
    IF parts = <<>> THEN <<>>
    ELSE IF Len(parts) = 1 THEN parts[1]
    ELSE parts[1] \o sep \o Join(Tail(parts), sep)

\* A faulty variant of OptionalSuffix: the continuation is made mandatory
MandatorySuffix(char, childPattern) == escapeRegexChar(char) \o childPattern

\* A faulty variant of OptionalSuffix: the empty continuation is tried first
ShortestFirst(char, childPattern) ==
    escapeRegexChar(char) \o <<"(", "?", ":", "|">> \o childPattern \o <<")">>

\* Line 87: the child ends a word and has continuations
OptionalSuffix(char, childPattern) ==
    escapeRegexChar(char) \o <<"(", "?", ":">> \o childPattern \o <<")", "?">>

\* A faulty variant of RequiredSuffix: the continuation is made optional
AlwaysOptional(char, childPattern) == OptionalSuffix(char, childPattern)

\* Line 93: the child has continuations only
RequiredSuffix(char, childPattern) == escapeRegexChar(char) \o childPattern

\* Lines 81-94: what the loop pushes for the child reached by char
Pushed(char, childNode, childPattern) ==
    IF childNode.isEndOfWord /\ Len(childNode.children) = 0
    THEN <<escapeRegexChar(char)>>
    ELSE IF childNode.isEndOfWord /\ Len(childNode.children) > 0
    THEN IF childPattern # <<>>
         THEN <<OptionalSuffix(char, childPattern)>>
         ELSE <<escapeRegexChar(char)>>
    ELSE IF Len(childNode.children) > 0
    THEN <<RequiredSuffix(char, childPattern)>>
    ELSE <<>>

\* Lines 97-104
Combine(alternatives) ==
    IF Len(alternatives) = 0 THEN <<>>
    ELSE IF Len(alternatives) = 1 THEN alternatives[1]
    ELSE <<"(", "?", ":">> \o Join(alternatives, <<"|">>) \o <<")">>

RECURSIVE trieToRegex(_, _)
RECURSIVE Alternatives(_, _, _)

\* The loop of lines 78-95 from the i-th child on
Alternatives(trie, path, i) ==
    LET node == trie[path]
    IN  IF i > Len(node.children) THEN <<>>
        ELSE LET char == node.children[i]
                 childPath == Append(path, char)
                 childNode == trie[childPath]
                 childPattern == trieToRegex(trie, childPath)
             IN  Pushed(char, childNode, childPattern) \o Alternatives(trie, path, i + 1)

\* A faulty variant of trieToRegex: one alternative is put in a group as well
AlwaysGrouped(trie, path) ==
    IF Len(trie[path].children) = 0
    THEN <<>>
    ELSE LET alternatives == Alternatives(trie, path, 1)
         IN  IF Len(alternatives) = 0 THEN <<>>
             ELSE <<"(", "?", ":">> \o Join(alternatives, <<"|">>) \o <<")">>

trieToRegex(trie, path) ==
    IF Len(trie[path].children) = 0
    THEN <<>>
    ELSE Combine(Alternatives(trie, path, 1))

----------------------------------------------------------------------------
(* createOptimizedRegex *)

\* A faulty variant of WordBoundariesOf: the default is false
WordBoundariesOff(opts) == opts.wordBoundaries = "true"

\* Line 31: the destructuring defaults
WordBoundariesOf(opts) == opts.wordBoundaries # "false"

CaseInsensitiveOf(opts) == opts.caseInsensitive = "true"

\* A faulty variant of FilterValid: the empty strings are kept
RECURSIVE KeepEmpty(_)
KeepEmpty(items) ==
    IF items = <<>> THEN <<>>
    ELSE (IF Head(items).kind = "string" THEN <<Head(items).chars>> ELSE <<>>)
         \o KeepEmpty(Tail(items))

\* Line 123: strings.filter(s => s && typeof s === 'string')
RECURSIVE FilterValid(_)
FilterValid(items) ==
    IF items = <<>> THEN <<>>
    ELSE LET s == Head(items)
         IN  (IF Truthy(s) /\ s.kind = "string" THEN <<s.chars>> ELSE <<>>)
             \o FilterValid(Tail(items))

\* [...new Set(list)]: the first occurrence of each value, in order
RECURSIVE SetOrder(_)
SetOrder(list) ==
    IF list = <<>> THEN <<>>
    ELSE LET front == SetOrder(SubSeq(list, 1, Len(list) - 1))
             last == list[Len(list)]
         IN  IF last \in Range(front) THEN front ELSE Append(front, last)

\* A faulty variant of UniqueStrings: of equal strings the last occurrence is kept
RECURSIVE KeepLast(_)
KeepLast(list) ==
    IF list = <<>> THEN <<>>
    ELSE IF Head(list) \in Range(Tail(list)) THEN KeepLast(Tail(list))
    ELSE <<Head(list)>> \o KeepLast(Tail(list))

UniqueLast(items) == KeepLast(FilterValid(items))

\* Line 123
UniqueStrings(items) == SetOrder(FilterValid(items))

\* A faulty variant of FinalPattern: the boundary at the end is left out
LeadingBoundary(body, opts) ==
    IF WordBoundariesOf(opts) THEN <<"\\", "b">> \o body ELSE body

\* Lines 134-137
FinalPattern(body, opts) ==
    IF WordBoundariesOf(opts)
    THEN <<"\\", "b">> \o body \o <<"\\", "b">>
    ELSE body

\* The call as a whole: what it returns or throws
createOptimizedRegex(strs, opts) ==
    IF ~strs.isArray \/ Len(strs.items) = 0
    THEN [threw |-> TRUE, value |-> <<>>, error |-> "Input must be a non-empty array of strings"]
    ELSE LET unique == UniqueStrings(strs.items)
         IN  IF Len(unique) = 0
             THEN [threw |-> TRUE, value |-> <<>>, error |-> "No valid strings provided"]
             ELSE [threw |-> FALSE,
                   value |-> FinalPattern(trieToRegex(buildTrie(unique, CaseInsensitiveOf(opts)), <<>>), opts),
                   error |-> ""]

----------------------------------------------------------------------------
(* The call, statement by statement *)

\* Lines 118-120
Validate ==
    /\ pc = "validate"
    /\ IF ~strings.isArray \/ Len(strings.items) = 0
       THEN /\ pc' = "thrown"
            /\ error' = "Input must be a non-empty array of strings"
       ELSE /\ pc' = "filter"
            /\ error' = error
    /\ UNCHANGED <<strings, options, uniqueStrings, root, pattern, result, earlier>>
    /\ UNCHANGED scriptVars
    /\ UNCHANGED restVars

\* Lines 123-127
Filter ==
    /\ pc = "filter"
    /\ uniqueStrings' = UniqueStrings(strings.items)
    /\ IF Len(uniqueStrings') = 0
       THEN /\ pc' = "thrown"
            /\ error' = "No valid strings provided"
       ELSE /\ pc' = "build"
            /\ error' = error
    /\ UNCHANGED <<strings, options, root, pattern, result, earlier>>
    /\ UNCHANGED scriptVars
    /\ UNCHANGED restVars

\* Line 130
BuildTrie ==
    /\ pc = "build"
    /\ root' = buildTrie(uniqueStrings, CaseInsensitiveOf(options))
    /\ pc' = "convert"
    /\ UNCHANGED <<strings, options, uniqueStrings, pattern, result, error, earlier>>
    /\ UNCHANGED scriptVars
    /\ UNCHANGED restVars

\* Line 131
TrieToRegex ==
    /\ pc = "convert"
    /\ pattern' = trieToRegex(root, <<>>)
    /\ pc' = "wrap"
    /\ UNCHANGED <<strings, options, uniqueStrings, root, result, error, earlier>>
    /\ UNCHANGED scriptVars
    /\ UNCHANGED restVars

\* Lines 134-139
Return ==
    /\ pc = "wrap"
    /\ result' = FinalPattern(pattern, options)
    /\ pc' = "returned"
    /\ UNCHANGED <<strings, options, uniqueStrings, root, pattern, error, earlier>>
    /\ UNCHANGED scriptVars
    /\ UNCHANGED restVars

Next == Validate \/ Filter \/ BuildTrie \/ TrieToRegex \/ Return

\* buildTrie and trieToRegex are not run step by step
NoWalk ==
    /\ build = [i |-> 0, j |-> 0, node |-> <<>>]
    /\ stack = <<>>
    /\ visits = <<>>

\* No debounced function is in use
NoDebounce ==
    /\ wait = 0
    /\ timeout = [kind |-> "undefined", id |-> 0]
    /\ timers = {}
    /\ nextId = 1
    /\ now = 0
    /\ search = ""
    /\ log = <<>>

NoRest == NoWalk /\ NoDebounce

\* The grammar script does not run
NoScript ==
    /\ step = "idle"
    /\ lsl = <<>>
    /\ slua = <<>>
    /\ lslGrammar = <<>>
    /\ sluaGrammar = <<>>
    /\ standard = <<>>
    /\ lslFile = <<>>
    /\ sluaFile = <<>>
    /\ failure = ""

\* The state at the entry of a call
Entry(strs, opts) ==
    /\ NoScript
    /\ NoRest
    /\ strings = strs
    /\ options = opts
    /\ pc = "validate"
    /\ uniqueStrings = <<>>
    /\ root = (<<>> :> TrieNode)
    /\ pattern = <<>>
    /\ result = <<>>
    /\ error = ""
    /\ earlier = <<>>

----------------------------------------------------------------------------
(* The regular expressions the patterns are written in, as the consumer    *)
(* of the grammar reads them: a parser of the pattern text and a           *)
(* backtracking matcher. Of the dialect, the part a pattern of the         *)
(* compiler can hold, with or without its escaping: literals, ".",         *)
(* the escapes of special characters, \b and \B, ^ and $, groups,          *)
(* alternation and the greedy quantifiers ? * +. Anything else ("[", "{",  *)
(* a lazy or doubled quantifier, other escapes, other (? groups) fails to  *)
(* parse, and a pattern that fails to parse matches nothing.               *)

Leaf(t, c) == [t |-> t, c |-> c, kids |-> <<>>]

Tree(t, kids) == [t |-> t, c |-> "", kids |-> kids]

Parsed(node, pos) == [ok |-> TRUE, node |-> node, pos |-> pos]

ParseFailure == [ok |-> FALSE, node |-> Leaf("fail", ""), pos |-> 0]

Quantifiers == {"?", "*", "+"}

At(p, i) == IF i >= 1 /\ i <= Len(p) THEN p[i] ELSE ""

RECURSIVE ParseDisjunction(_, _)
RECURSIVE ParseAlternative(_, _)
RECURSIVE ParseTerm(_, _)
RECURSIVE ParseAtom(_, _)
RECURSIVE ParseClass(_, _, _, _)

\* Disjunction ::= Alternative | Alternative "|" Disjunction
ParseDisjunction(p, i) ==
    LET a == ParseAlternative(p, i)
    IN  IF ~a.ok THEN ParseFailure
        ELSE IF At(p, a.pos) = "|"
        THEN LET rest == ParseDisjunction(p, a.pos + 1)
             IN  IF rest.ok THEN Parsed(Tree("alt", <<a.node, rest.node>>), rest.pos)
                 ELSE ParseFailure
        ELSE a

\* Alternative ::= Term*
ParseAlternative(p, i) ==
    IF i > Len(p) \/ p[i] \in {"|", ")"}
    THEN Parsed(Tree("seq", <<>>), i)
    ELSE LET t == ParseTerm(p, i)
         IN  IF ~t.ok THEN ParseFailure
             ELSE LET rest == ParseAlternative(p, t.pos)
                  IN  IF rest.ok
                      THEN Parsed(Tree("seq", <<t.node>> \o rest.node.kids), rest.pos)
                      ELSE ParseFailure

\* Term ::= Assertion | Atom | Atom Quantifier
ParseTerm(p, i) ==
    LET a == ParseAtom(p, i)
    IN  IF ~a.ok THEN ParseFailure
        ELSE IF At(p, a.pos) \notin Quantifiers THEN a
        ELSE IF a.node.t \in {"wordb", "nwordb", "bol", "eol", "nbehind"} THEN ParseFailure
        ELSE IF At(p, a.pos + 1) \in Quantifiers THEN ParseFailure
        ELSE LET q == p[a.pos]
             IN  Parsed(CASE q = "?" -> Tree("opt", <<a.node>>)
                          [] q = "*" -> Tree("star", <<a.node>>)
                          [] OTHER   -> Tree("seq", <<a.node, Tree("star", <<a.node>>)>>),
                        a.pos + 1)

\* The members of a character class up to its "]"; t is "class" or "nclass"
ParseClass(p, i, t, members) ==
    IF i > Len(p) THEN ParseFailure
    ELSE IF p[i] = "]" THEN Parsed(Tree(t, members), i + 1)
    ELSE IF p[i] = "\\"
    THEN IF i + 1 > Len(p) THEN ParseFailure
         ELSE ParseClass(p, i + 2, t, Append(members, Leaf("char", p[i + 1])))
    ELSE ParseClass(p, i + 1, t, Append(members, Leaf("char", p[i])))

ParseAtom(p, i) ==
    LET c == p[i]
    IN  CASE c = "." -> Parsed(Leaf("any", ""), i + 1)
          [] c = "^" -> Parsed(Leaf("bol", ""), i + 1)
          [] c = "$" -> Parsed(Leaf("eol", ""), i + 1)
          [] c = "\\" ->
                LET d == At(p, i + 1)
                IN  CASE d = "b" -> Parsed(Leaf("wordb", ""), i + 2)
                      [] d = "B" -> Parsed(Leaf("nwordb", ""), i + 2)
                      [] d \in {".", "*", "+", "?", "^", "$", "{", "}",
                                "(", ")", "|", "[", "]", "\\", "/", "-"} ->
                            Parsed(Leaf("char", d), i + 2)
                      [] OTHER -> ParseFailure
          [] c = "(" ->
                LET nonCapturing == At(p, i + 1) = "?" /\ At(p, i + 2) = ":"
                    notBehind == At(p, i + 1) = "?" /\ At(p, i + 2) = "<" /\ At(p, i + 3) = "!"
                    inner == ParseDisjunction(p, IF notBehind THEN i + 4
                                                 ELSE IF nonCapturing THEN i + 3 ELSE i + 1)
                IN  IF At(p, i + 1) = "?" /\ ~nonCapturing /\ ~notBehind THEN ParseFailure
                    ELSE IF inner.ok /\ At(p, inner.pos) = ")"
                    THEN Parsed(Tree(IF notBehind THEN "nbehind" ELSE "group", <<inner.node>>),
                                inner.pos + 1)
                    ELSE ParseFailure
          [] c = "[" ->
                IF At(p, i + 1) = "^" THEN ParseClass(p, i + 2, "nclass", <<>>)
                ELSE ParseClass(p, i + 1, "class", <<>>)
          [] c \in {"?", "*", "+", "{", ")", "|"} -> ParseFailure
          [] OTHER -> Parsed(Leaf("char", c), i + 1)

\* new RegExp(p): the whole text must parse
ParseRegex(p) ==
    LET r == ParseDisjunction(p, 1)
    IN  IF r.ok /\ r.pos = Len(p) + 1 THEN r ELSE ParseFailure

IsWordChar(c) == c \in Range(UpperLetters) \cup Range(LowerLetters) \cup Digits \cup {"_"}

\* Whether offset i of text lies between a word character and none
AtWordBoundary(text, i) ==
    (i >= 1 /\ IsWordChar(text[i])) # (i < Len(text) /\ IsWordChar(text[i + 1]))

\* Two characters are the same, or under the i flag the same up to case
SameChar(a, b, ignoreCase) ==
    IF ignoreCase THEN LowerChar(a) = LowerChar(b) ELSE a = b

RECURSIVE Ends(_, _, _, _)
RECURSIVE SeqEnds(_, _, _, _, _)
RECURSIVE Continue(_, _, _, _, _, _)
RECURSIVE StarEnds(_, _, _, _, _)

\* The offsets at which a match of node that starts at offset i of text can end,
\* in the order in which the backtracking matcher tries them
Ends(node, text, i, ignoreCase) ==
    CASE node.t = "char" ->
            IF i < Len(text) /\ SameChar(text[i + 1], node.c, ignoreCase) THEN <<i + 1>> ELSE <<>>
      [] node.t = "any" -> IF i < Len(text) THEN <<i + 1>> ELSE <<>>
      [] node.t = "wordb" -> IF AtWordBoundary(text, i) THEN <<i>> ELSE <<>>
      [] node.t = "nwordb" -> IF AtWordBoundary(text, i) THEN <<>> ELSE <<i>>
      [] node.t = "bol" -> IF i = 0 THEN <<i>> ELSE <<>>
      [] node.t = "eol" -> IF i = Len(text) THEN <<i>> ELSE <<>>
      [] node.t = "seq" -> SeqEnds(node.kids, 1, text, i, ignoreCase)
      [] node.t = "alt" -> Ends(node.kids[1], text, i, ignoreCase)
                           \o Ends(node.kids[2], text, i, ignoreCase)
      [] node.t = "opt" -> Ends(node.kids[1], text, i, ignoreCase) \o <<i>>
      [] node.t = "star" ->
            StarEnds(node, Ends(node.kids[1], text, i, ignoreCase), text, i, ignoreCase) \o <<i>>
      [] node.t = "group" -> Ends(node.kids[1], text, i, ignoreCase)
      [] node.t \in {"class", "nclass"} ->
            IF i < Len(text)
               /\ (node.t = "class") = (\E k \in 1..Len(node.kids) :
                                            SameChar(text[i + 1], node.kids[k].c, ignoreCase))
            THEN <<i + 1>> ELSE <<>>
      [] node.t = "nbehind" ->
            IF \E j \in 0..i : i \in Range(Ends(node.kids[1], text, j, ignoreCase))
            THEN <<>> ELSE <<i>>
      [] OTHER -> <<>>

\* The k-th term of a sequence and those after it
SeqEnds(kids, k, text, i, ignoreCase) ==
    IF k > Len(kids) THEN <<i>>
    ELSE Continue(kids, k + 1, Ends(kids[k], text, i, ignoreCase), text, i, ignoreCase)

Continue(kids, k, ends, text, i, ignoreCase) ==
    IF ends = <<>> THEN <<>>
    ELSE SeqEnds(kids, k, text, Head(ends), ignoreCase)
         \o Continue(kids, k, Tail(ends), text, i, ignoreCase)

\* After one iteration of a star ended at each of ends: an empty iteration is not repeated
StarEnds(node, ends, text, i, ignoreCase) ==
    IF ends = <<>> THEN <<>>
    ELSE (IF Head(ends) > i THEN Ends(node, text, Head(ends), ignoreCase) ELSE <<>>)
         \o StarEnds(node, Tail(ends), text, i, ignoreCase)

\* /^(?:p)$/.test(text), with the i flag when ignoreCase
MatchesWhole(regex, text, ignoreCase) ==
    regex.ok /\ Len(text) \in Range(Ends(regex.node, text, 0, ignoreCase))

\* The match the matcher reports when it starts at offset i: <<>> or <<end>>
MatchAt(regex, text, i, ignoreCase) ==
    IF ~regex.ok THEN <<>>
    ELSE LET ends == Ends(regex.node, text, i, ignoreCase)
         IN  IF ends = <<>> THEN <<>> ELSE <<ends[1]>>

\* The offsets i, j of every match the matcher can report in text
MatchesIn(regex, text, ignoreCase) ==
    {<<i, MatchAt(regex, text, i, ignoreCase)[1]>> :
        i \in {k \in 0..Len(text) : MatchAt(regex, text, k, ignoreCase) # <<>>}}

----------------------------------------------------------------------------
(* Inputs *)

Array(items) == [isArray |-> TRUE, items |-> items]

\* A value that is no array (an array-like object with one entry)
NotAnArray == [isArray |-> FALSE, items |-> <<Str(<<"a">>)>>]

Opts(wb, ci) == [wordBoundaries |-> wb, caseInsensitive |-> ci]

OptionValues == {"undefined", "true", "false"}

AllOptions == {Opts(wb, ci) : wb \in OptionValues, ci \in OptionValues}

\* createOptimizedRegex(strings): options omitted
Omitted == Opts("undefined", "undefined")

NoBoundaries == Opts("false", "false")

\* The sequences of non-empty strings over alphabet with at most n characters in all
RECURSIVE VocabsUpTo(_, _)
VocabsUpTo(alphabet, n) ==
    {<<>>} \cup UNION {{<<w>> \o rest : w \in [1..l -> alphabet], rest \in VocabsUpTo(alphabet, n - l)}
                       : l \in 1..n}

\* The sequences of at most n values
ArraysUpTo(values, n) == UNION {[1..l -> values] : l \in 0..n}

\* The texts over alphabet of at most n characters
TextsUpTo(alphabet, n) == UNION {[1..l -> alphabet] : l \in 0..n}

StrItems(words) == [i \in 1..Len(words) |-> Str(words[i])]

MaxChars == 6

MaxOptChars == 3

MaxItems == 3

MaxCallChars == 2

Alphabet == {"a", "."}

OptAlphabet == {"a", "A", "b"}

CallAlphabet == {"a", "b"}

ItemValues == {Str(<<>>), NullValue, NumberValue, Str(<<"a">>), Str(<<"b">>), Str(<<"a", "b">>)}

\* The vocabularies the specification gives as examples
SetWords == <<<<"S","e","t">>, <<"S","e","t","T","i","m","e","r","E","v","e","n","t">>>>

EscWords == <<<<"a",".","b">>, <<"a","+","c">>>>

FooWords == <<<<"f","o","o">>>>

AbsWords == <<<<"A","b","s">>, <<"F","a","b","s">>, <<"C","e","i","l">>>>

AbsWord == <<<<"A","b","s">>>>

\* A vocabulary of one character, for every character that is escaped and some that are not
OneCharWords == {<<<<c>>>> : c \in SpecialChars \cup {"-", "/", "_", "b", "B"}}

Inputs ==
    {<<Array(StrItems(words)), NoBoundaries>> : words \in VocabsUpTo(Alphabet, MaxChars)}
    \cup {<<Array(StrItems(words)), NoBoundaries>> : words \in OneCharWords \cup {SetWords, EscWords}}
    \cup {<<Array(StrItems(words)), opts>> : words \in VocabsUpTo(OptAlphabet, MaxOptChars), opts \in AllOptions}
    \cup {<<Array(StrItems(words)), opts>> : words \in {FooWords, AbsWords, AbsWord}, opts \in AllOptions}
    \cup {<<Array(items), opts>> : items \in ArraysUpTo(ItemValues, MaxItems), opts \in {Omitted, NoBoundaries}}
    \cup {<<NotAnArray, opts>> : opts \in {Omitted, NoBoundaries}}

Init == \E input \in Inputs : Entry(input[1], input[2])

Spec == Init /\ [][Next]_vars

\* A script that calls createOptimizedRegex again and again
CallInputs ==
    {<<Array(StrItems(words)), opts>> : words \in VocabsUpTo(CallAlphabet, MaxCallChars),
                                        opts \in {Omitted, NoBoundaries}}

\* The next call of the script; the call that ended may be the one kept in earlier
NewCall ==
    /\ pc \in {"returned", "thrown"}
    /\ \E input \in CallInputs, keep \in BOOLEAN :
        /\ strings' = input[1]
        /\ options' = input[2]
        /\ earlier' = IF keep
                      THEN <<[strings |-> strings, options |-> options, pc |-> pc,
                              result |-> result, error |-> error, between |-> FALSE]>>
                      ELSE [i \in 1..Len(earlier) |-> [earlier[i] EXCEPT !.between = TRUE]]
    /\ pc' = "validate"
    /\ result' = <<>>
    /\ error' = ""
    /\ UNCHANGED <<uniqueStrings, root, pattern>>
    /\ UNCHANGED scriptVars
    /\ UNCHANGED restVars

InitCalls == \E input \in CallInputs : Entry(input[1], input[2])

NextCalls == Next \/ NewCall

SpecCalls == InitCalls /\ [][NextCalls]_vars

MaxOrderChars == 4

OrderAlphabet == {"a", "b"}

\* The calls whose vocabulary is given in every order
OrderInputs ==
    {<<Array(StrItems(words)), opts>> : words \in VocabsUpTo(OrderAlphabet, MaxOrderChars),
                                        opts \in {Omitted, NoBoundaries}}

InitOrder == \E input \in OrderInputs : Entry(input[1], input[2])

SpecOrder == InitOrder /\ [][Next]_vars

MaxTrieChars == 4

TrieAlphabet == {"a", "A", "."}

\* The calls whose trie is looked into, with caseInsensitive false and true
TrieInputs ==
    {<<Array(StrItems(words)), opts>> : words \in VocabsUpTo(TrieAlphabet, MaxTrieChars),
                                        opts \in {NoBoundaries, Opts("false", "true")}}

InitTrie == \E input \in TrieInputs : Entry(input[1], input[2])

SpecTrie == InitTrie /\ [][Next]_vars

\* The calls with arrays of strings, empty strings and values that are no strings
BodyInputs ==
    {<<Array(items), opts>> : items \in ArraysUpTo(ItemValues, MaxItems),
                              opts \in {Omitted, NoBoundaries}}

InitBody == \E input \in BodyInputs : Entry(input[1], input[2])

SpecBody == InitBody /\ [][Next]_vars

MaxShapeChars == 4

ShapeAlphabet == {"a", "(", ")", "?", "|", "\\"}

GroupAlphabet == {"(", "?", "|"}

\* The calls whose strings hold the characters groups are written with: one string
\* of any of them, or several strings of some of them
ShapeInputs ==
    {<<Array(StrItems(words)), opts>> :
        words \in VocabsUpTo(GroupAlphabet, MaxShapeChars)
                  \cup {<<w>> : w \in TextsUpTo(ShapeAlphabet, MaxShapeChars) \ {<<>>}},
        opts \in {Omitted, NoBoundaries}}

InitShape == \E input \in ShapeInputs : Entry(input[1], input[2])

SpecShape == InitShape /\ [][Next]_vars

----------------------------------------------------------------------------
(* buildTrie and trieToRegex step by step *)

\* Line 47: const root = new TrieNode(), and the first string of the loop of line 49
BuildEnter ==
    /\ pc = "build"
    /\ root' = NewRoot
    /\ build' = [i |-> 1, j |-> 0, node |-> <<>>]
    /\ pc' = "building"
    /\ UNCHANGED <<strings, options, uniqueStrings, pattern, result, error, earlier>>
    /\ UNCHANGED <<stack, visits>>
    /\ UNCHANGED scriptVars
    /\ UNCHANGED debounceVars

\* Line 51
ProcessedStr(str, opts) == IF CaseInsensitiveOf(opts) THEN toLowerCase(str) ELSE str

\* Lines 53-57: one turn of the loop over the characters
InsertChar ==
    /\ pc = "building"
    /\ build.i <= Len(uniqueStrings)
    /\ LET processedStr == ProcessedStr(uniqueStrings[build.i], options)
       IN  /\ build.j < Len(processedStr)
           /\ LET char == processedStr[build.j + 1]
              IN  /\ root' = Grow(root, build.node, char)
                  /\ build' = [build EXCEPT !.j = @ + 1, !.node = Append(@, char)]
    /\ UNCHANGED <<strings, options, pc, uniqueStrings, pattern, result, error, earlier>>
    /\ UNCHANGED <<stack, visits>>
    /\ UNCHANGED scriptVars
    /\ UNCHANGED debounceVars

\* Line 59, and the next string of the loop of line 49 with node = root (line 52)
EndOfWord ==
    /\ pc = "building"
    /\ build.i <= Len(uniqueStrings)
    /\ build.j = Len(ProcessedStr(uniqueStrings[build.i], options))
    /\ root' = MarkEnd(root, build.node)
    /\ build' = [i |-> build.i + 1, j |-> 0, node |-> <<>>]
    /\ UNCHANGED <<strings, options, pc, uniqueStrings, pattern, result, error, earlier>>
    /\ UNCHANGED <<stack, visits>>
    /\ UNCHANGED scriptVars
    /\ UNCHANGED debounceVars

\* Line 62: return root
BuildReturn ==
    /\ pc = "building"
    /\ build.i > Len(uniqueStrings)
    /\ pc' = "convert"
    /\ UNCHANGED <<strings, options, uniqueStrings, root, pattern, result, error, earlier>>
    /\ UNCHANGED walkVars
    /\ UNCHANGED scriptVars
    /\ UNCHANGED debounceVars

\* The frame of a call of trieToRegex at its entry
CallFrame(path) == [path |-> path, next |-> 1, alternatives |-> <<>>]

\* A faulty variant of NextChild: the loop stays at the child it is at
SameChild(next) == next

\* Line 78: the loop goes on to the next entry of node.children
NextChild(next) == next + 1

\* Line 131: trieToRegex(root)
WalkEnter ==
    /\ pc = "convert"
    /\ stack' = <<CallFrame(<<>>)>>
    /\ visits' = <<<<>>>>
    /\ pc' = "converting"
    /\ UNCHANGED <<strings, options, uniqueStrings, root, pattern, result, error, earlier>>
    /\ UNCHANGED build
    /\ UNCHANGED scriptVars
    /\ UNCHANGED debounceVars

\* Line 80: const childPattern = trieToRegex(childNode)
Descend ==
    /\ pc = "converting"
    /\ LET top == stack[Len(stack)]
       IN  /\ top.next <= Len(root[top.path].children)
           /\ LET childPath == Append(top.path, root[top.path].children[top.next])
              IN  /\ stack' = Append(stack, CallFrame(childPath))
                  /\ visits' = Append(visits, childPath)
    /\ UNCHANGED callVars
    /\ UNCHANGED build
    /\ UNCHANGED scriptVars
    /\ UNCHANGED debounceVars

\* Lines 71-73 and 97-104: the call on top returns; lines 81-94: its caller pushes
\* the alternative and goes on with its loop, or line 131 takes the pattern
Ascend ==
    /\ pc = "converting"
    /\ LET top == stack[Len(stack)]
           fragment == IF Len(root[top.path].children) = 0 THEN <<>>
                       ELSE Combine(top.alternatives)
       IN  /\ top.next > Len(root[top.path].children)
           /\ IF Len(stack) = 1
              THEN /\ pattern' = fragment
                   /\ stack' = <<>>
                   /\ pc' = "wrap"
              ELSE LET caller == stack[Len(stack) - 1]
                       char == root[caller.path].children[caller.next]
                   IN  /\ stack' = [SubSeq(stack, 1, Len(stack) - 1) EXCEPT
                                      ![Len(stack) - 1] =
                                          [caller EXCEPT
                                              !.alternatives =
                                                  @ \o Pushed(char, root[top.path], fragment),
                                              !.next = NextChild(@)]]
                       /\ pattern' = pattern
                       /\ pc' = pc
    /\ UNCHANGED <<strings, options, uniqueStrings, root, result, error, earlier>>
    /\ UNCHANGED <<build, visits>>
    /\ UNCHANGED scriptVars
    /\ UNCHANGED debounceVars

NextWalk ==
    \/ Validate
    \/ Filter
    \/ BuildEnter
    \/ InsertChar
    \/ EndOfWord
    \/ BuildReturn
    \/ WalkEnter
    \/ Descend
    \/ Ascend
    \/ Return

MaxWalkChars == 4

WalkAlphabet == {"a", "b"}

WalkInputs ==
    {<<Array(StrItems(words)), opts>> : words \in VocabsUpTo(WalkAlphabet, MaxWalkChars),
                                        opts \in {Omitted, Opts("false", "true")}}

InitWalk == \E input \in WalkInputs : Entry(input[1], input[2])

\* The script is one thread that runs every call to its end
SpecWalk == InitWalk /\ [][NextWalk]_vars /\ WF_vars(NextWalk)

----------------------------------------------------------------------------
(* The grammar script: the statements after createOptimizedRegex *)

\* A rule of a grammar document; comment stands for its fields other than name and match
Rule(name, match, comment) == [name |-> name, match |-> match, comment |-> comment]

\* A faulty variant of Find: the last rule of the name is taken
FindLast(patterns, name) ==
    IF \E i \in 1..Len(patterns) : patterns[i].name = name
    THEN CHOOSE i \in 1..Len(patterns) :
            /\ patterns[i].name = name
            /\ \A j \in (i + 1)..Len(patterns) : patterns[j].name # name
    ELSE 0

\* patterns.find(pattern => pattern.name == name): the index of the rule, 0 for undefined
Find(patterns, name) ==
    IF \E i \in 1..Len(patterns) : patterns[i].name = name
    THEN CHOOSE i \in 1..Len(patterns) :
            /\ patterns[i].name = name
            /\ \A j \in 1..(i - 1) : patterns[j].name # name
    ELSE 0

NamesOf(entries) == [i \in 1..Len(entries) |-> entries[i].name]

\* A faulty variant of IsGodMode: the flag decides whatever the other flags
GodModeFirst(definition) == definition.godMode

\* The branches of lines 162-166
IsDeprecated(definition) == ~definition.private /\ definition.deprecated

IsGodMode(definition) ==
    ~definition.private /\ ~definition.deprecated /\ definition.godMode

IsNormal(definition) ==
    ~definition.private /\ ~definition.deprecated /\ ~definition.godMode

BooleanConstants == {<<"T","R","U","E">>, <<"F","A","L","S","E">>}

\* The branches of lines 182-184
IsDeprecatedConstant(definition) ==
    definition.name \notin BooleanConstants /\ definition.deprecated

IsConstant(definition) ==
    definition.name \notin BooleanConstants /\ ~definition.deprecated

\* The statements that set the match of a rule of the LSL grammar, in their order
LslOrder ==
    <<"types", "events", "functions", "functionsGodMode", "functionsDeprecated",
      "constants", "constantsDeprecated">>

\* The section and the name by which each statement finds its rule
LslRule(vocabulary) ==
    CASE vocabulary = "types" -> [section |-> "types", name |-> "storage.type.lsl"]
      [] vocabulary = "events" -> [section |-> "events", name |-> "constant.language.events.lsl"]
      [] vocabulary = "functions" -> [section |-> "functions", name |-> "support.function.lsl"]
      [] vocabulary = "functionsGodMode" ->
            [section |-> "functions", name |-> "support.function.god-mode.lsl"]
      [] vocabulary = "functionsDeprecated" ->
            [section |-> "functions", name |-> "invalid.deprecated.support.function.lsl"]
      [] vocabulary = "constants" -> [section |-> "constants", name |-> "support.constant.lsl"]
      [] vocabulary = "constantsDeprecated" ->
            [section |-> "constants", name |-> "invalid.deprecated.constant.lsl"]

\* The array each statement compiles
LslVocabulary(defs, vocabulary) ==
    CASE vocabulary = "types" -> defs.types
      [] vocabulary = "events" -> defs.events
      [] vocabulary = "functions" -> NamesOf(SelectSeq(defs.functions, IsNormal))
      [] vocabulary = "functionsGodMode" -> NamesOf(SelectSeq(defs.functions, IsGodMode))
      [] vocabulary = "functionsDeprecated" -> NamesOf(SelectSeq(defs.functions, IsDeprecated))
      [] vocabulary = "constants" -> NamesOf(SelectSeq(defs.constants, IsConstant))
      [] vocabulary = "constantsDeprecated" ->
            NamesOf(SelectSeq(defs.constants, IsDeprecatedConstant))

\* The positions of the script, in their order
Steps ==
    LslOrder \o <<"writeLsl">>
    \o <<"globalFunctions", "globalConstants", "luauFunctions", "luauConstants",
         "platformFunctions", "platformConstants">>
    \o <<"standardLibrary", "primitiveTypes", "writeSlua", "done">>

StepAfter(s) == Steps[(CHOOSE i \in 1..Len(Steps) : Steps[i] = s) + 1]

\* Lines 146-191: patternX.match = createOptimizedRegex(vocabulary). The call throws
\* on an empty vocabulary, the assignment throws when find gave undefined.
UpdateLslRule ==
    /\ step \in Range(LslOrder)
    /\ LET rule == LslRule(step)
           compiled == createOptimizedRegex(Array(StrItems(LslVocabulary(lsl, step))), Omitted)
           at == Find(lslGrammar[rule.section], rule.name)
       IN  IF compiled.threw
           THEN /\ failure' = compiled.error
                /\ step' = "aborted"
                /\ lslGrammar' = lslGrammar
           ELSE IF at = 0
           THEN /\ failure' = "TypeError: Cannot set properties of undefined"
                /\ step' = "aborted"
                /\ lslGrammar' = lslGrammar
           ELSE /\ lslGrammar' = [lslGrammar EXCEPT ![rule.section][at].match = compiled.value]
                /\ step' = StepAfter(step)
                /\ failure' = failure
    /\ UNCHANGED <<lsl, slua, sluaGrammar, standard, lslFile, sluaFile>>
    /\ UNCHANGED callVars
    /\ UNCHANGED restVars

\* Line 195
WriteLsl ==
    /\ step = "writeLsl"
    /\ lslFile' = lslGrammar
    /\ step' = StepAfter(step)
    /\ UNCHANGED <<lsl, slua, lslGrammar, sluaGrammar, standard, sluaFile, failure>>
    /\ UNCHANGED callVars
    /\ UNCHANGED restVars

Global == <<"g","l","o","b","a","l">>

\* flatMap(item => Array.isArray(item)? item : ('list' in item? item.list : item)).map(item => item.name)
RECURSIVE Flatten(_)
Flatten(items) ==
    IF items = <<>> THEN <<>> ELSE Head(items) \o Flatten(Tail(items))

\* key.toLowerCase().startsWith('ll')
StartsWithLl(key) ==
    Len(key) >= 2 /\ SubSeq(toLowerCase(key), 1, 2) = <<"l", "l">>

\* A faulty variant of IsPlatform: the key is not lowercased
CaseSensitiveLl(library) ==
    Len(library.namespace) >= 2 /\ SubSeq(library.namespace, 1, 2) = <<"l", "l">>

IsLuau(library) == library.namespace # Global /\ ~StartsWithLl(library.namespace)

IsPlatform(library) == StartsWithLl(library.namespace)

\* .map(item => namespace + '.' + item.name)
Qualified(namespace, names) == [i \in 1..Len(names) |-> namespace \o <<".">> \o names[i]]

\* .filter(item => item?.length)
NonEmpty(name) == Len(name) > 0

\* The names of kind "functions" or "constants" of the libraries, each with its namespace
RECURSIVE QualifiedNames(_, _)
QualifiedNames(libraries, kind) ==
    IF libraries = <<>> THEN <<>>
    ELSE SelectSeq(Qualified(Head(libraries).namespace, Flatten(Head(libraries)[kind])), NonEmpty)
         \o QualifiedNames(Tail(libraries), kind)

\* slua.libraries.global
GlobalLibrary(defs) ==
    defs.libraries[CHOOSE i \in 1..Len(defs.libraries) : defs.libraries[i].namespace = Global]

SluaOrder ==
    <<"globalFunctions", "globalConstants", "luauFunctions", "luauConstants",
      "platformFunctions", "platformConstants">>

\* Lines 203-244
SluaVocabulary(defs, vocabulary) ==
    CASE vocabulary = "globalFunctions" -> Flatten(GlobalLibrary(defs).functions)
      [] vocabulary = "globalConstants" -> Flatten(GlobalLibrary(defs).constants)
      [] vocabulary = "luauFunctions" ->
            QualifiedNames(SelectSeq(defs.libraries, IsLuau), "functions")
      [] vocabulary = "luauConstants" ->
            QualifiedNames(SelectSeq(defs.libraries, IsLuau), "constants")
      [] vocabulary = "platformFunctions" ->
            QualifiedNames(SelectSeq(defs.libraries, IsPlatform), "functions")
      [] vocabulary = "platformConstants" ->
            QualifiedNames(SelectSeq(defs.libraries, IsPlatform), "constants")

\* The name of the rule pushed for each vocabulary, lines 252-278
SluaRuleName(vocabulary) ==
    CASE vocabulary \in {"globalFunctions", "luauFunctions", "platformFunctions"} ->
            "support.function.luau"
      [] vocabulary = "globalConstants" -> "constant.language.luau"
      [] vocabulary \in {"luauConstants", "platformConstants"} -> "support.constant.luau"

\* A faulty variant of LookbehindGuard: the colon is not in the lookbehind
DotGuardOnly == <<"(", "?", "<", "!", "[", "^", ".", "]", "\\", ".", ")">>

\* '(?<![^.]\\.|:)'
LookbehindGuard == <<"(", "?", "<", "!", "[", "^", ".", "]", "\\", ".", "|", ":", ")">>

\* Lines 251-279: if(vocabulary.length) standard.push({name, match})
PushStandardRule ==
    /\ step \in Range(SluaOrder)
    /\ LET vocabulary == SluaVocabulary(slua, step)
           compiled == createOptimizedRegex(Array(StrItems(vocabulary)), Omitted)
       IN  IF Len(vocabulary) = 0
           THEN /\ standard' = standard
                /\ step' = StepAfter(step)
                /\ failure' = failure
           ELSE IF compiled.threw
           THEN /\ standard' = standard
                /\ step' = "aborted"
                /\ failure' = compiled.error
           ELSE /\ standard' = Append(standard, [name |-> SluaRuleName(step),
                                                 match |-> LookbehindGuard \o compiled.value])
                /\ step' = StepAfter(step)
                /\ failure' = failure
    /\ UNCHANGED <<lsl, slua, lslGrammar, sluaGrammar, lslFile, sluaFile>>
    /\ UNCHANGED callVars
    /\ UNCHANGED restVars

\* Line 281
AssignStandardLibrary ==
    /\ step = "standardLibrary"
    /\ sluaGrammar' = [sluaGrammar EXCEPT !.standard_library = standard]
    /\ step' = StepAfter(step)
    /\ UNCHANGED <<lsl, slua, lslGrammar, standard, lslFile, sluaFile, failure>>
    /\ UNCHANGED callVars
    /\ UNCHANGED restVars

Table == <<"t","a","b","l","e">>

NotTable(type) == type # Table

\* `\\b(${...join('|')}|unknown|never|any)\\b`
PrimitiveTypes(types) ==
    <<"\\", "b", "(">> \o Join(SelectSeq(types, NotTable), <<"|">>)
    \o <<"|","u","n","k","n","o","w","n","|","n","e","v","e","r","|","a","n","y",")","\\","b">>

\* Lines 285-287
UpdatePrimitiveTypes ==
    /\ step = "primitiveTypes"
    /\ LET at == Find(sluaGrammar.type_literal, "support.type.primitive.luau")
       IN  IF at = 0
           THEN /\ failure' = "TypeError: Cannot set properties of undefined"
                /\ step' = "aborted"
                /\ sluaGrammar' = sluaGrammar
           ELSE /\ sluaGrammar' = [sluaGrammar EXCEPT
                                      !.type_literal[at].match = PrimitiveTypes(slua.types)]
                /\ step' = StepAfter(step)
                /\ failure' = failure
    /\ UNCHANGED <<lsl, slua, lslGrammar, standard, lslFile, sluaFile>>
    /\ UNCHANGED callVars
    /\ UNCHANGED restVars

\* Line 292
WriteSlua ==
    /\ step = "writeSlua"
    /\ sluaFile' = sluaGrammar
    /\ step' = StepAfter(step)
    /\ UNCHANGED <<lsl, slua, lslGrammar, sluaGrammar, standard, lslFile, failure>>
    /\ UNCHANGED callVars
    /\ UNCHANGED restVars

NextScript ==
    \/ UpdateLslRule
    \/ WriteLsl
    \/ PushStandardRule
    \/ AssignStandardLibrary
    \/ UpdatePrimitiveTypes
    \/ WriteSlua

\* Lines 12-15: the definitions and the grammar documents are read; no call is under way
Start(lslDefs, lslDocument, sluaDefs, sluaDocument) ==
    /\ strings = Array(<<>>)
    /\ options = Omitted
    /\ pc = "idle"
    /\ uniqueStrings = <<>>
    /\ root = (<<>> :> TrieNode)
    /\ pattern = <<>>
    /\ result = <<>>
    /\ error = ""
    /\ earlier = <<>>
    /\ step = "types"
    /\ lsl = lslDefs
    /\ slua = sluaDefs
    /\ lslGrammar = lslDocument
    /\ sluaGrammar = sluaDocument
    /\ standard = <<>>
    /\ lslFile = lslDocument
    /\ sluaFile = sluaDocument
    /\ failure = ""
    /\ NoRest

MaxEntries == 2

MaxLibraries == 2

\* The sequences over values of at most n entries with a different name each
RECURSIVE EntriesUpTo(_, _, _)
EntriesUpTo(names, flags, n) ==
    IF n = 0 \/ names = <<>> THEN {<<>>}
    ELSE {<<>>} \cup {<<[name |-> Head(names)] @@ f>> \o rest :
                        f \in flags, rest \in EntriesUpTo(Tail(names), flags, n - 1)}

FunctionNames == <<<<"l","l","A">>, <<"l","l","A","b">>, <<"l","l","B">>, <<"l","l","C">>>>

FunctionFlags == [private : BOOLEAN, deprecated : BOOLEAN, godMode : BOOLEAN]

ConstantNames == <<<<"P","I">>, <<"T","R","U","E">>, <<"P","I","N">>, <<"F","A","L","S","E">>>>

ConstantFlags == [deprecated : BOOLEAN]

KeyLists == {<<>>, <<<<"k","e","y">>>>, <<<<"k","e","y">>, <<"k","e","y","s">>>>}


\* Definitions with a function and a constant for every vocabulary
FullLsl ==
    [types |-> <<<<"k","e","y">>>>, events |-> <<<<"o","n">>>>,
     functions |-> <<[name |-> <<"l","l","A">>, private |-> FALSE, deprecated |-> FALSE, godMode |-> FALSE],
                     [name |-> <<"l","l","G">>, private |-> FALSE, deprecated |-> FALSE, godMode |-> TRUE],
                     [name |-> <<"l","l","D">>, private |-> FALSE, deprecated |-> TRUE, godMode |-> FALSE]>>,
     constants |-> <<[name |-> <<"P","I">>, deprecated |-> FALSE],
                     [name |-> <<"O","L","D">>, deprecated |-> TRUE]>>]

LslDefinitions ==
    {[types |-> <<<<"k","e","y">>>>, events |-> <<<<"o","n">>>>, functions |-> f, constants |-> c] :
        f \in EntriesUpTo(FunctionNames, FunctionFlags, MaxEntries),
        c \in EntriesUpTo(ConstantNames, ConstantFlags, MaxEntries)}
    \cup {[FullLsl EXCEPT !.types = t, !.events = e] :
            t \in KeyLists, e \in {<<>>, <<<<"o","n">>>>}}
    \cup {[FullLsl EXCEPT !.functions =
                @ \o <<[name |-> <<"l","l","P">>, private |-> TRUE, deprecated |-> d, godMode |-> g],
                       [name |-> <<"l","l","X">>, private |-> FALSE, deprecated |-> TRUE, godMode |-> TRUE]>>] :
            d \in BOOLEAN, g \in BOOLEAN}

\* A grammar document with the named rules, a rule of its own before each and, in the
\* functions, a second rule named as the first; without the rule named missing
LslDocument(missing) ==
    LET Section(names) ==
            SelectSeq(<<Rule("comment.lsl", <<"/", "/">>, "first")>>
                      \o [i \in 1..Len(names) |-> Rule(names[i], <<"o", "l", "d">>, "kept")],
                      LAMBDA r : r.name # missing)
    IN  [types |-> Section(<<"storage.type.lsl">>),
         events |-> Section(<<"constant.language.events.lsl">>),
         functions |-> Section(<<"support.function.lsl", "support.function.god-mode.lsl",
                                 "invalid.deprecated.support.function.lsl",
                                 "support.function.lsl">>),
         constants |-> Section(<<"support.constant.lsl", "invalid.deprecated.constant.lsl">>),
         keywords |-> Section(<<"keyword.control.lsl">>)]

LslDocuments ==
    {LslDocument(missing) : missing \in {"", "support.function.god-mode.lsl",
                                         "invalid.deprecated.constant.lsl"}}

LibraryNames == <<<<"o","s">>, <<"l","l">>, <<"L","L","e">>, <<"l">>>>

ItemLists == {<<>>, <<<<<<"f">>>>>>, <<<<<<"f">>, <<"f","n">>>>, <<<<"g">>>>>>}

\* The libraries after global: at most n, with a different namespace each
RECURSIVE LibrariesUpTo(_, _)
LibrariesUpTo(names, n) ==
    IF n = 0 \/ names = <<>> THEN {<<>>}
    ELSE LibrariesUpTo(Tail(names), n)
         \cup {<<[namespace |-> Head(names), functions |-> f, constants |-> c]>> \o rest :
                 f \in ItemLists, c \in {<<>>, <<<<<<"c">>>>>>},
                 rest \in LibrariesUpTo(Tail(names), n - 1)}

SluaDefinitions ==
    {[libraries |-> <<[namespace |-> Global, functions |-> f, constants |-> c]>> \o rest,
      types |-> <<<<"n">>, Table>>] :
        f \in ItemLists, c \in {<<>>, <<<<<<"c">>>>>>},
        rest \in LibrariesUpTo(LibraryNames, MaxLibraries)}

FullSlua ==
    [libraries |-> <<[namespace |-> Global, functions |-> <<<<<<"f">>>>>>, constants |-> <<>>],
                     [namespace |-> <<"o","s">>, functions |-> <<<<<<"f">>>>>>, constants |-> <<>>]>>,
     types |-> <<<<"n">>, Table>>]

SluaDocument(missing) ==
    [standard_library |-> <<Rule("support.function.luau", <<"o", "l", "d">>, "replaced")>>,
     type_literal |-> SelectSeq(<<Rule("comment.luau", <<"-", "-">>, "first"),
                                  Rule("support.type.primitive.luau", <<"o", "l", "d">>, "kept")>>,
                                LAMBDA r : r.name # missing)]

ScriptInputs ==
    {<<defs, LslDocument(""), FullSlua, SluaDocument("")>> : defs \in LslDefinitions}
    \cup {<<FullLsl, document, FullSlua, SluaDocument("")>> : document \in LslDocuments}
    \cup {<<FullLsl, LslDocument(""), defs, SluaDocument("")>> : defs \in SluaDefinitions}
    \cup {<<FullLsl, LslDocument(""), FullSlua, SluaDocument("support.type.primitive.luau")>>}

InitScript == \E input \in ScriptInputs : Start(input[1], input[2], input[3], input[4])

SpecScript == InitScript /\ [][NextScript]_vars

----------------------------------------------------------------------------
(* The claims *)

\* The vocabulary of a call: the non-empty strings of its array
Members(strs) ==
    {strs.items[i].chars : i \in {k \in 1..Len(strs.items) :
        strs.items[k].kind = "string" /\ strs.items[k].chars # <<>>}}

\* wordBoundaries false and caseInsensitive false
Plain(opts) == opts.wordBoundaries = "false" /\ opts.caseInsensitive # "true"

\* wordBoundaries true and caseInsensitive false, given or by default
Default(opts) == opts.wordBoundaries # "false" /\ opts.caseInsensitive # "true"

IsProperPrefix(p, e) == Len(p) < Len(e) /\ SubSeq(e, 1, Len(p)) = p

Probes == {"x", "a", "b", "."}

\* The texts that differ from a member in one character, or are a member cut short
\* or a member with one character more
Variations(strs) ==
    UNION {{[s EXCEPT ![i] = c] : i \in 1..Len(s), c \in Probes}
           \cup {SubSeq(s, 1, l) : l \in 0..Len(s)}
           \cup {Append(s, c) : c \in Probes}
           : s \in Members(strs)}

Texts == TextsUpTo(Alphabet, MaxChars) \cup TextsUpTo(OptAlphabet, MaxOptChars)

\* C1 Soundness: the pattern returned with wordBoundaries false and
\* caseInsensitive false matches every member of the vocabulary, and the match
\* the matcher reports at the start of the member consumes all of it.
C1_Soundness ==
    (pc = "returned" /\ Plain(options)) =>
        LET regex == ParseRegex(result)
        IN  \A s \in Members(strings) : MatchAt(regex, s, 0, FALSE) = <<Len(s)>>

C1_Witness ==
    /\ pc = "returned" /\ Plain(options)
    /\ Cardinality(Members(strings)) >= 3
    /\ \E s \in Members(strings), t \in Members(strings) : IsProperPrefix(s, t)
    /\ \E s \in Members(strings) : "." \in Range(s)

\* C2 Completeness: a text that is no member of the vocabulary is not matched
\* in its entirety by the pattern returned with wordBoundaries false (and
\* caseInsensitive false), so that the texts matched in their entirety are
\* exactly the vocabulary.
C2_Completeness ==
    (pc = "returned" /\ Plain(options)) =>
        LET regex == ParseRegex(result)
        IN  \A t \in Texts \cup Variations(strings) :
                MatchesWhole(regex, t, FALSE) <=> t \in Members(strings)

C2_Witness ==
    /\ pc = "returned" /\ Plain(options)
    /\ Cardinality(Members(strings)) >= 3
    /\ \E t \in Texts, s \in Members(strings) :
           t \notin Members(strings) /\ IsProperPrefix(s, t)
    /\ \E t \in Texts, s \in Members(strings) :
           t \notin Members(strings) /\ IsProperPrefix(t, s) /\ t # <<>>

\* C3 Prefix handling: when the vocabulary holds p and a proper extension e of
\* p, the pattern compiled without boundaries matches both in their entirety,
\* and the greedy match that starts at the beginning of e consumes all of e
\* instead of stopping after p; so for Set and SetTimerEvent.
C3_PrefixHandling ==
    (pc = "returned" /\ Plain(options)) =>
        LET regex == ParseRegex(result)
        IN  \A p \in Members(strings), e \in Members(strings) :
                IsProperPrefix(p, e) =>
                    /\ MatchesWhole(regex, p, FALSE)
                    /\ MatchesWhole(regex, e, FALSE)
                    /\ MatchAt(regex, e, 0, FALSE) # <<Len(p)>>
                    /\ MatchAt(regex, e, 0, FALSE) = <<Len(e)>>

C3_Witness ==
    /\ pc = "returned" /\ Plain(options)
    /\ strings = Array(StrItems(SetWords))
    /\ result = <<"S","e","t","(","?",":","T","i","m","e","r","E","v","e","n","t",")","?">>

\* The reserved characters as the claim lists them
ReservedChars == {".", "*", "+", "?", "^", "$", "{", "}", "(", ")", "|", "[", "]", "\\"}

RECURSIVE Escaped(_)
Escaped(w) ==
    IF w = <<>> THEN <<>>
    ELSE (IF Head(w) \in ReservedChars THEN <<"\\", Head(w)>> ELSE <<Head(w)>>)
         \o Escaped(Tail(w))

\* C4 Escaping: a reserved character of the vocabulary is emitted with one
\* backslash before it and any other character as it is (the pattern of a
\* vocabulary of one word is the word so escaped), and a member that holds a
\* reserved character is matched only literally: the text with another
\* character in its place is not matched unless it is a member too. For
\* a.b and a+c the pattern matches a.b and a+c and neither axb nor axc.
C4_Escaping ==
    (pc = "returned" /\ Plain(options)) =>
        LET regex == ParseRegex(result)
        IN  /\ \A w \in Members(strings) :
                   Members(strings) = {w} => result = Escaped(w)
            /\ \A s \in Members(strings) : \A i \in 1..Len(s) : \A c \in Probes :
                   (s[i] \in ReservedChars /\ [s EXCEPT ![i] = c] \notin Members(strings))
                       => ~MatchesWhole(regex, [s EXCEPT ![i] = c], FALSE)
            /\ strings = Array(StrItems(EscWords)) =>
                   /\ MatchesWhole(regex, <<"a",".","b">>, FALSE)
                   /\ MatchesWhole(regex, <<"a","+","c">>, FALSE)
                   /\ ~MatchesWhole(regex, <<"a","x","b">>, FALSE)
                   /\ ~MatchesWhole(regex, <<"a","x","c">>, FALSE)

C4_Witness ==
    /\ pc = "returned" /\ Plain(options)
    /\ strings = Array(StrItems(EscWords))
    /\ result = <<"a","(","?",":","\\",".","b","|","\\","+","c",")">>

\* C5 Input rejection: the call throws, and returns no pattern, exactly when
\* its first argument is no array, is an empty array, or holds no non-empty
\* string; for every other input it returns a pattern and throws nothing.
C5_InputRejection ==
    LET rejected == ~strings.isArray \/ Len(strings.items) = 0
                    \/ (\A i \in 1..Len(strings.items) :
                           strings.items[i].kind # "string" \/ strings.items[i].chars = <<>>)
    IN  /\ pc = "thrown" => (rejected /\ result = <<>> /\ error # "")
        /\ pc = "returned" => (~rejected /\ error = "")
        /\ rejected => pc \in {"validate", "filter", "thrown"}
        /\ createOptimizedRegex(strings, options).threw <=> rejected

C5_Witness ==
    /\ pc = "thrown"
    /\ strings = Array(<<Str(<<>>), Str(<<>>)>>)
    /\ error = "No valid strings provided"

\* The array without its empty strings and its values that are no strings,
\* and with the first occurrence only of each string that is left
RECURSIVE FirstOccurrences(_, _)
FirstOccurrences(items, i) ==
    IF i > Len(items) THEN <<>>
    ELSE (IF /\ items[i].kind = "string" /\ items[i].chars # <<>>
             /\ \A j \in 1..(i - 1) : items[j] # items[i]
          THEN <<items[i]>> ELSE <<>>)
         \o FirstOccurrences(items, i + 1)

\* C6 Filtering and deduplication: the pattern returned for an array is the
\* pattern returned for the array without its empty strings, its values that
\* are no strings and the later occurrences of its strings.
C6_FilterDedup ==
    pc = "returned" =>
        LET clean == createOptimizedRegex(Array(FirstOccurrences(strings.items, 1)), options)
        IN  ~clean.threw /\ clean.value = result

C6_Witness ==
    /\ pc = "returned"
    /\ strings = Array(<<Str(<<"a">>), Str(<<"b">>), Str(<<"a">>)>>)
    /\ result = <<"(","?",":","a","|","b",")">>

WordB == <<"\\", "b">>

\* C7 Boundary wrapping format: with options omitted or wordBoundaries true
\* the result is \b, the body, \b, the body being what the same call returns
\* with wordBoundaries false; with wordBoundaries false the result is the
\* pattern of the trie with nothing added.
C7_BoundaryWrapping ==
    pc = "returned" =>
        LET body == createOptimizedRegex(strings, [options EXCEPT !.wordBoundaries = "false"]).value
        IN  /\ options.wordBoundaries \in {"undefined", "true"} => result = WordB \o body \o WordB
            /\ options.wordBoundaries = "false" => (result = body /\ result = pattern)

C7_Witness ==
    /\ pc = "returned"
    /\ options = Omitted
    /\ strings = Array(StrItems(FooWords))
    /\ result = <<"\\","b","f","o","o","\\","b">>

\* Offsets i, j of text have no word character right before i nor right after j
Standalone(text, i, j) ==
    /\ i = 0 \/ ~IsWordChar(text[i])
    /\ j = Len(text) \/ ~IsWordChar(text[j + 1])

Affixes == {<<>>, <<" ">>, <<"(">>, <<"x">>, <<"_">>, <<"9">>}

FooText == <<"a"," ","f","o","o"," ","b">>

BarFooText == <<"b","a","r","f","o","o","x">>

AbsText == <<"A","b","s","(","x",")"," ","F","a","b","s","o","l","u","t","e"," ","C","e","i","l","(",")">>

\* C8 Boundary matching: for a vocabulary of word characters compiled with the
\* default options, in a text that holds a member between two affixes every
\* match is a member with no word character right before and right after it,
\* and the member is matched exactly when the affixes are no word characters.
\* foo is matched in "a foo b" and not in "barfoox"; of Abs, Fabs, Ceil the
\* text "Abs(x) Fabsolute Ceil()" has the matches Abs and Ceil only.
C8_BoundaryMatching ==
    (/\ pc = "returned" /\ Default(options)
     /\ \A s \in Members(strings) : \A i \in 1..Len(s) : IsWordChar(s[i])) =>
        LET regex == ParseRegex(result)
        IN  /\ \A s \in Members(strings), pre \in Affixes, post \in Affixes :
                   LET text == pre \o s \o post
                       found == MatchesIn(regex, text, FALSE)
                   IN  /\ \A m \in found :
                              /\ Standalone(text, m[1], m[2])
                              /\ SubSeq(text, m[1] + 1, m[2]) \in Members(strings)
                       /\ <<Len(pre), Len(pre) + Len(s)>> \in found
                              <=> Standalone(text, Len(pre), Len(pre) + Len(s))
            /\ strings = Array(StrItems(FooWords)) =>
                   /\ MatchesIn(regex, FooText, FALSE) = {<<2, 5>>}
                   /\ MatchesIn(regex, BarFooText, FALSE) = {}
            /\ strings = Array(StrItems(AbsWords)) =>
                   MatchesIn(regex, AbsText, FALSE) = {<<0, 3>>, <<17, 21>>}

C8_Witness ==
    /\ pc = "returned" /\ options = Omitted
    /\ strings = Array(StrItems(AbsWords))
    /\ <<7, 11>> \notin MatchesIn(ParseRegex(result), AbsText, FALSE)
    /\ <<7, 11>> \in MatchesIn(ParseRegex(SubSeq(result, 3, Len(result) - 2)), AbsText, FALSE)

UpperChar(c) ==
    IF c \in Range(LowerLetters)
    THEN UpperLetters[CHOOSE i \in 1..Len(LowerLetters) : LowerLetters[i] = c]
    ELSE c

\* The texts that differ from s in the case of letters only
CaseVariants(s) ==
    {v \in [1..Len(s) -> UNION {{LowerChar(s[i]), UpperChar(s[i])} : i \in 1..Len(s)}] :
        \A i \in 1..Len(s) : LowerChar(v[i]) = LowerChar(s[i])}

LoweredItems(items) ==
    [i \in 1..Len(items) |->
        [items[i] EXCEPT !.chars = [k \in 1..Len(items[i].chars) |-> LowerChar(items[i].chars[k])]]]

HasInlineModifier(p) ==
    \E i \in 1..(Len(p) - 2) : p[i] = "(" /\ p[i + 1] = "?" /\ p[i + 2] \in {"i", "-"}

\* C9 Case-insensitivity option: with caseInsensitive true the result is the
\* result of compiling the lowercased vocabulary with caseInsensitive false,
\* it holds no inline case modifier, and under a case-insensitive match mode
\* it matches every case variant of every member (of letters, digits and
\* underscores); so for Abs: abs, ABS and Abs.
C9_CaseInsensitive ==
    (pc = "returned" /\ options.caseInsensitive = "true") =>
        LET lowered == createOptimizedRegex(Array(LoweredItems(strings.items)),
                                            [options EXCEPT !.caseInsensitive = "false"])
            regex == ParseRegex(result)
        IN  /\ ~lowered.threw /\ result = lowered.value
            /\ ~HasInlineModifier(result)
            /\ \A s \in Members(strings) :
                   (\A i \in 1..Len(s) : IsWordChar(s[i])) =>
                       \A v \in CaseVariants(s) : MatchesWhole(regex, v, TRUE)
            /\ strings = Array(StrItems(AbsWord)) =>
                   /\ MatchesWhole(regex, <<"a","b","s">>, TRUE)
                   /\ MatchesWhole(regex, <<"A","B","S">>, TRUE)
                   /\ MatchesWhole(regex, <<"A","b","s">>, TRUE)

C9_Witness ==
    /\ pc = "returned" /\ options = Opts("undefined", "true")
    /\ strings = Array(StrItems(AbsWord))
    /\ result = <<"\\","b","a","b","s","\\","b">>

\* C10 Determinism: a call with the array and the options of an earlier call
\* ends as the earlier call did, with the same pattern or the same error,
\* whatever calls were made in between.
C10_Determinism ==
    (/\ pc \in {"returned", "thrown"}
     /\ earlier # <<>>
     /\ earlier[1].strings = strings /\ earlier[1].options = options) =>
        /\ earlier[1].pc = pc
        /\ earlier[1].result = result
        /\ earlier[1].error = error

C10_Witness ==
    /\ pc = "returned"
    /\ earlier # <<>>
    /\ earlier[1].strings = strings /\ earlier[1].options = options
    /\ earlier[1].between
    /\ Cardinality(Members(strings)) >= 2

----------------------------------------------------------------------------
(* The claims on the trie and its conversion *)

\* The trie of the call is built
TrieBuilt == pc \in {"convert", "wrap", "returned"}

\* The strings of the call as they are inserted: lowercased when caseInsensitive
Processed ==
    [i \in 1..Len(uniqueStrings) |->
        IF options.caseInsensitive = "true"
        THEN [k \in 1..Len(uniqueStrings[i]) |-> LowerChar(uniqueStrings[i][k])]
        ELSE uniqueStrings[i]]

ChildPath(path, i) == Append(path, root[path].children[i])

\* C15 Per-child emission rule: the alternative of a child reached by c with
\* fragment f is esc(c) when the child ends a word and has no children,
\* esc(c)(?:f)? when it ends a word and has children, and esc(c)f when it
\* ends no word; the optional group appears in the second case only.
C15_EmissionRule ==
    TrieBuilt =>
        \A path \in DOMAIN root : \A i \in 1..Len(root[path].children) :
            LET c == root[path].children[i]
                child == root[ChildPath(path, i)]
                f == trieToRegex(root, ChildPath(path, i))
                rest == Alternatives(root, path, i)
            IN  /\ Len(rest) = Len(root[path].children) - i + 1
                /\ rest[1] =
                     IF child.isEndOfWord /\ Len(child.children) = 0 THEN Escaped(<<c>>)
                     ELSE IF child.isEndOfWord
                     THEN Escaped(<<c>>) \o <<"(", "?", ":">> \o f \o <<")", "?">>
                     ELSE Escaped(<<c>>) \o f

C15_Witness ==
    /\ pc = "returned"
    /\ \E path \in DOMAIN root : \E i \in 1..Len(root[path].children) :
        root[ChildPath(path, i)].isEndOfWord /\ root[ChildPath(path, i)].children = <<>>
    /\ \E path \in DOMAIN root : \E j \in 1..Len(root[path].children) :
        /\ root[ChildPath(path, j)].isEndOfWord /\ root[ChildPath(path, j)].children # <<>>
        /\ root[path].children[j] = "."
    /\ \E path \in DOMAIN root : \E k \in 1..Len(root[path].children) :
        ~root[ChildPath(path, k)].isEndOfWord

RECURSIVE Bars(_)
Bars(alts) ==
    IF Len(alts) = 1 THEN alts[1] ELSE alts[1] \o <<"|">> \o Bars(Tail(alts))

\* C16 Combination rule: a node without children yields the empty string, a
\* node with one child the alternative of that child with no group around it,
\* a node with two children or more (?: the alternatives joined by | ); at
\* the root as at the inner nodes, the pattern being the fragment of the root.
C16_CombinationRule ==
    TrieBuilt =>
        /\ \A path \in DOMAIN root :
            LET n == Len(root[path].children)
                alts == Alternatives(root, path, 1)
                fragment == trieToRegex(root, path)
            IN  /\ n = 0 => fragment = <<>>
                /\ n = 1 => (Len(alts) = 1 /\ fragment = alts[1])
                /\ n >= 2 => (Len(alts) = n
                              /\ fragment = <<"(", "?", ":">> \o Bars(alts) \o <<")">>)
        /\ pc \in {"wrap", "returned"} => pattern = trieToRegex(root, <<>>)

C16_Witness ==
    /\ pc = "returned"
    /\ \E path \in DOMAIN root : Len(root[path].children) = 1
    /\ \E path \in DOMAIN root : path # <<>> /\ Len(root[path].children) >= 2
    /\ \E path \in DOMAIN root : Len(root[path].children) = 0

\* The characters that follow path in the strings of list, each once, in the
\* order in which the strings first show them
RECURSIVE FirstFollowers(_, _)
FirstFollowers(list, path) ==
    IF list = <<>> THEN <<>>
    ELSE LET before == FirstFollowers(SubSeq(list, 1, Len(list) - 1), path)
             last == list[Len(list)]
         IN  IF IsProperPrefix(path, last) /\ last[Len(path) + 1] \notin Range(before)
             THEN Append(before, last[Len(path) + 1])
             ELSE before

\* C17 Stable branch order: at every node the children, and with them the
\* alternatives of the pattern, are in the order in which the deduplicated
\* input first shows a string that passes through each child.
C17_BranchOrder ==
    TrieBuilt =>
        \A path \in DOMAIN root :
            LET alts == Alternatives(root, path, 1)
            IN  /\ root[path].children = FirstFollowers(Processed, path)
                /\ Len(alts) = Len(root[path].children)
                /\ \A k \in 1..Len(alts) :
                       LET esc == Escaped(<<root[path].children[k]>>)
                       IN  Len(alts[k]) >= Len(esc) /\ SubSeq(alts[k], 1, Len(esc)) = esc

C17_Witness ==
    /\ pc = "returned"
    /\ root[<<>>].children = <<".", "a", "A">>
    /\ pattern = <<"(", "?", ":", "\\", ".", "|", "a", "|", "A", ")">>

\* C18 Trie content: the paths from the root to the nodes marked end-of-word
\* spell exactly the strings inserted (lowercased when caseInsensitive), every
\* node lies on the path of such a string, and the root is never marked.
C18_TrieContent ==
    TrieBuilt =>
        /\ {path \in DOMAIN root : root[path].isEndOfWord} = Range(Processed)
        /\ \A path \in DOMAIN root :
               path = <<>> \/ \E i \in 1..Len(Processed) :
                   path = Processed[i] \/ IsProperPrefix(path, Processed[i])
        /\ ~root[<<>>].isEndOfWord

C18_Witness ==
    /\ pc = "returned"
    /\ options.caseInsensitive = "true"
    /\ Len(uniqueStrings) >= 2
    /\ Cardinality(Range(Processed)) < Len(uniqueStrings)
    /\ Cardinality({path \in DOMAIN root : root[path].isEndOfWord}) >= 2

\* C19 No dropped child: every node but the root ends a word or has a child,
\* so that every child falls in one of the three emission cases and a node
\* has as many alternatives as children.
C19_NoDroppedChild ==
    TrieBuilt =>
        \A path \in DOMAIN root :
            /\ path # <<>> => (root[path].isEndOfWord \/ Len(root[path].children) >= 1)
            /\ \A i \in 1..Len(root[path].children) : ChildPath(path, i) \in DOMAIN root
            /\ Len(Alternatives(root, path, 1)) = Len(root[path].children)

C19_Witness ==
    /\ pc = "returned"
    /\ \E path \in DOMAIN root :
        /\ Len(path) = 2
        /\ ~root[path].isEndOfWord
        /\ Len(root[path].children) >= 1
    /\ \E path \in DOMAIN root :
        /\ Len(path) = 1
        /\ root[path].isEndOfWord
        /\ Len(root[path].children) >= 1

Orders(n) ==
    {p \in [1..n -> 1..n] : \A i, j \in 1..n : p[i] = p[j] => i = j}

Permuted(strs, p) == Array([i \in 1..Len(strs.items) |-> strs.items[p[i]]])

OrderTexts == TextsUpTo(OrderAlphabet, MaxOrderChars)

\* C20 Order independence of the language: the pattern compiled from any
\* permutation of the array accepts under whole-match the texts that the
\* pattern compiled from the array accepts, and no others.
C20_OrderIndependence ==
    pc = "returned" =>
        \A p \in Orders(Len(strings.items)) :
            LET other == createOptimizedRegex(Permuted(strings, p), options)
            IN  /\ ~other.threw
                /\ other.value # result =>
                     \A text \in OrderTexts :
                         MatchesWhole(ParseRegex(other.value), text, FALSE)
                             = MatchesWhole(ParseRegex(result), text, FALSE)

C20_Witness ==
    /\ pc = "returned"
    /\ Cardinality(Members(strings)) >= 3
    /\ \E s \in Members(strings), t \in Members(strings) : IsProperPrefix(s, t)
    /\ \E p \in Orders(Len(strings.items)) :
           createOptimizedRegex(Permuted(strings, p), options).value # result
    /\ \E text \in OrderTexts : Len(text) >= 2 /\ MatchesWhole(ParseRegex(result), text, FALSE)

----------------------------------------------------------------------------
(* The claims on the calls of the script *)

\* Every node of the trie lies on the path of a string of the present call
FreshTrie ==
    \A path \in DOMAIN root :
        path = <<>> \/ \E i \in 1..Len(Processed) :
            path = Processed[i] \/ IsProperPrefix(path, Processed[i])

\* The outcome of the present call is the one its array and options give
OwnOutcome ==
    LET own == createOptimizedRegex(strings, options)
    IN  IF own.threw THEN pc = "thrown" /\ error = own.error
        ELSE pc = "returned" /\ result = own.value

\* C11 Purity: no step of a call changes the array or the options of the
\* call; the trie of a call is created in the call and holds nothing of the
\* tries of earlier calls; the outcome of a call is the one its array and
\* options give, whatever calls came before.
C11_Purity ==
    /\ [][pc' # "validate" => (strings' = strings /\ options' = options)]_vars
    /\ [](pc = "convert" => FreshTrie)
    /\ [](pc \in {"returned", "thrown"} => OwnOutcome)

C11_Witness ==
    /\ pc = "returned"
    /\ earlier # <<>>
    /\ earlier[1].pc = "returned"
    /\ earlier[1].between
    /\ \E s \in Members(earlier[1].strings) : \A t \in Members(strings) :
           s # t /\ ~IsProperPrefix(s, t)
    /\ \E t \in Members(strings) : \A s \in Members(earlier[1].strings) :
           s # t /\ ~IsProperPrefix(t, s)

----------------------------------------------------------------------------
(* The claims on the grammar script *)

Compiled(vocabulary) == createOptimizedRegex(Array(StrItems(vocabulary)), Omitted)

GuardPrefix == <<"(", "?", "<", "!", "[", "^", ".", "]", "\\", ".", "|", ":", ")">>

\* The rules of the vocabularies from the k-th on that are not empty
RECURSIVE GuardedRules(_)
GuardedRules(k) ==
    IF k > Len(SluaOrder) THEN <<>>
    ELSE LET vocabulary == SluaVocabulary(slua, SluaOrder[k])
         IN  (IF vocabulary = <<>> THEN <<>>
              ELSE <<[name |-> SluaRuleName(SluaOrder[k]),
                      match |-> GuardPrefix \o Compiled(vocabulary).value,
                      vocabulary |-> vocabulary]>>)
             \o GuardedRules(k + 1)

\* What stands before an occurrence that the guard refuses: a colon, or a dot after
\* a character that is no dot
Refused == {<<":">>, <<"x", ".">>, <<" ", ".">>, <<":", ".">>, <<".", ":">>}

\* What stands before an occurrence that the guard lets pass
Passed == {<<>>, <<" ">>, <<".">>, <<".", ".">>, <<"x", ".", ".">>, <<":", " ">>, <<"(">>}

\* C12 Lookbehind guard: the match of every rule of the SLua standard library
\* is (?<![^.]\.|:) followed by the compiled pattern of the vocabulary of the
\* rule, so that a member is not matched after a colon or after a dot that
\* follows a character other than a dot, and is matched after neither.
C12_LookbehindGuard ==
    step = "done" =>
        LET rules == GuardedRules(1)
            written == sluaFile.standard_library
        IN  /\ Len(written) = Len(rules)
            /\ \A k \in 1..Len(rules) :
                /\ written[k].name = rules[k].name
                /\ written[k].match = rules[k].match
                /\ LET regex == ParseRegex(written[k].match)
                   IN  \A m \in Range(rules[k].vocabulary) :
                        /\ \A before \in Refused :
                               MatchAt(regex, before \o m, Len(before), FALSE) = <<>>
                        /\ \A before \in Passed :
                               MatchAt(regex, before \o m, Len(before), FALSE)
                                   = <<Len(before) + Len(m)>>

C12_Witness ==
    /\ step = "done"
    /\ Len(sluaFile.standard_library) = 6
    /\ \E k \in 1..6 : \E m \in Range(GuardedRules(1)[k].vocabulary) : "." \in Range(m)

\* C13 Failure independence: when the script has ended, every rule whose
\* vocabulary compiles has the compiled pattern as its match, whichever
\* other vocabulary failed to compile.
C13_FailureIndependence ==
    step \in {"done", "aborted"} =>
        \A v \in Range(LslOrder) :
            LET compiled == Compiled(LslVocabulary(lsl, v))
                patterns == lslGrammar[LslRule(v).section]
            IN  ~compiled.threw =>
                    \A i \in 1..Len(patterns) :
                        (/\ patterns[i].name = LslRule(v).name
                         /\ \A j \in 1..(i - 1) : patterns[j].name # LslRule(v).name)
                            => patterns[i].match = compiled.value

\* The rule i of section is the first of its name, and the name is one the script looks for
Located(document, section, i) ==
    \E v \in Range(LslOrder) :
        /\ LslRule(v).section = section
        /\ LslRule(v).name = document[section][i].name
        /\ \A j \in 1..(i - 1) : document[section][j].name # document[section][i].name

\* after differs from before in nothing but the match of located rules
Frame(before, after) ==
    /\ DOMAIN after = DOMAIN before
    /\ \A section \in DOMAIN before :
        /\ Len(after[section]) = Len(before[section])
        /\ \A i \in 1..Len(before[section]) :
            /\ after[section][i].name = before[section][i].name
            /\ after[section][i].comment = before[section][i].comment
            /\ DOMAIN after[section][i] = DOMAIN before[section][i]
            /\ after[section][i].match # before[section][i].match
                   => Located(before, section, i)

\* C14 Grammar frame: the LSL document written differs from the document read
\* in the match of the rules found by the seven names only; every other rule
\* and the name and other fields of those rules are as they were read; no
\* other step writes the document.
C14_GrammarFrame ==
    [][/\ step = "writeLsl" => Frame(lslFile, lslFile')
       /\ step # "writeLsl" => lslFile' = lslFile]_vars

C14_Witness ==
    /\ step = "done"
    /\ lslFile = lslGrammar
    /\ \A v \in Range(LslOrder) :
           \E i \in 1..Len(lslFile[LslRule(v).section]) :
               /\ lslFile[LslRule(v).section][i].name = LslRule(v).name
               /\ lslFile[LslRule(v).section][i].match # <<"o", "l", "d">>
    /\ \E i \in 1..Len(lslFile.functions) : lslFile.functions[i].match = <<"o", "l", "d">>

----------------------------------------------------------------------------
(* The claims on the shape of the pattern *)

\* C21 Non-empty body: when the call returns, the body of the pattern is not
\* empty, so the result is neither the empty string nor the bare \b\b; the
\* conversion gives the empty fragment at nodes without children below the
\* root only, never at the root.
C21_NonEmptyBody ==
    /\ pc \in {"wrap", "returned"} => (pattern # <<>> /\ root[<<>>].children # <<>>)
    /\ pc = "returned" => result \notin {<<>>, <<"\\", "b", "\\", "b">>}
    /\ TrieBuilt =>
           \A path \in DOMAIN root :
               trieToRegex(root, path) = <<>>
                   <=> (path # <<>> /\ root[path].children = <<>>)

C21_Witness ==
    /\ pc = "returned"
    /\ options = Omitted
    /\ \E i \in 1..Len(strings.items) : strings.items[i] = Str(<<>>)
    /\ \E i \in 1..Len(strings.items) : strings.items[i].kind # "string"
    /\ Len(result) = 5

\* The length of the longest string of the call
Longest ==
    IF uniqueStrings = <<>> THEN 0
    ELSE CHOOSE n \in {Len(uniqueStrings[i]) : i \in 1..Len(uniqueStrings)} :
            \A i \in 1..Len(uniqueStrings) : Len(uniqueStrings[i]) <= n

\* C22 Termination: every call ends, buildTrie and trieToRegex with it;
\* trieToRegex is called once with every node of the trie and with nothing
\* else; the calls of trieToRegex under way are never more than the length
\* of the longest string and one for the root.
C22_Termination ==
    /\ <>(pc \in {"returned", "thrown"})
    /\ [](Len(stack) <= Longest + 1)
    /\ [](\A i, j \in 1..Len(visits) : visits[i] = visits[j] => i = j)
    /\ [](pc \in {"wrap", "returned"} =>
            /\ Range(visits) = DOMAIN root
            /\ root = buildTrie(uniqueStrings, CaseInsensitiveOf(options))
            /\ pattern = trieToRegex(root, <<>>))

C22_Witness ==
    /\ pc = "converting"
    /\ Len(stack) = Longest + 1
    /\ Len(stack) = 4
    /\ Len(visits) >= 5
    /\ Len(uniqueStrings) = 2

\* The character an alternative begins with, its escape set aside
FirstLiteral(alternative) ==
    IF alternative[1] = "\\" THEN alternative[2] ELSE alternative[1]

BranchTexts == TextsUpTo(TrieAlphabet, 3)

\* C23 Unambiguous branching: the children of a node are one per character,
\* so the alternatives of every group begin with literal characters that
\* differ from one another, and at no position of a text more than one
\* alternative of a group matches.
C23_UnambiguousBranching ==
    pc = "returned" =>
        \A path \in DOMAIN root :
            LET children == root[path].children
                alts == Alternatives(root, path, 1)
                ignoreCase == options.caseInsensitive = "true"
                regexes == [k \in 1..Len(alts) |-> ParseRegex(alts[k])]
            IN  /\ \A i, j \in 1..Len(children) : children[i] = children[j] => i = j
                /\ Len(alts) = Len(children)
                /\ \A i, j \in 1..Len(alts) :
                       FirstLiteral(alts[i]) = FirstLiteral(alts[j]) => i = j
                /\ \A text \in BranchTexts : \A at \in 0..Len(text) :
                       Cardinality({k \in 1..Len(alts) :
                           MatchAt(regexes[k], text, at, ignoreCase) # <<>>}) <= 1

C23_Witness ==
    /\ pc = "returned"
    /\ \E path \in DOMAIN root : Len(root[path].children) = 3
    /\ \E path \in DOMAIN root : path # <<>> /\ Len(root[path].children) = 1

\* The positions of p from i on that no backslash escapes and that hold no escaping backslash
RECURSIVE UnescapedFrom(_, _)
UnescapedFrom(p, i) ==
    IF i > Len(p) THEN {}
    ELSE IF p[i] = "\\" THEN UnescapedFrom(p, i + 2)
    ELSE {i} \cup UnescapedFrom(p, i + 1)

\* The groups open before position i of p
OpenBefore(p, i) ==
    Cardinality({k \in UnescapedFrom(p, 1) : k < i /\ p[k] = "("})
    - Cardinality({k \in UnescapedFrom(p, 1) : k < i /\ p[k] = ")"})

\* C24 Well-formed pattern: in the returned pattern every unescaped ( begins
\* (?: , the groups are balanced and nested, every unescaped ? belongs to a
\* (?: or follows a closing ), and every unescaped | lies in a group; there
\* is no capturing group.
C24_WellFormed ==
    pc = "returned" =>
        LET p == result
            plain == UnescapedFrom(p, 1)
        IN  /\ \A i \in plain :
                /\ p[i] = "(" => (At(p, i + 1) = "?" /\ At(p, i + 2) = ":")
                /\ p[i] = "?" =>
                       \/ (i - 1) \in plain /\ p[i - 1] = "(" /\ At(p, i + 1) = ":"
                       \/ (i - 1) \in plain /\ p[i - 1] = ")"
                /\ p[i] = "|" => OpenBefore(p, i) >= 1
                /\ p[i] = ")" => OpenBefore(p, i) >= 1
            /\ OpenBefore(p, Len(p) + 1) = 0
            /\ ParseRegex(p).ok

C24_Witness ==
    /\ pc = "returned"
    /\ options = Omitted
    /\ \E i \in UnescapedFrom(result, 1) : result[i] = "|"
    /\ \E i \in UnescapedFrom(result, 1) : result[i] = ")" /\ At(result, i + 1) = "?"
    /\ \E i \in 1..Len(result) :
           i \notin UnescapedFrom(result, 1) /\ result[i] \in {"(", "|", "?"}

-----------------------------------------------------------------------------
(* The claims on the vocabularies of the grammar script *)

FunctionVocabularies == {"functions", "functionsGodMode", "functionsDeprecated"}

\* The vocabulary the flags of a function that is not private name
ClassOf(definition) ==
    IF definition.deprecated THEN "functionsDeprecated"
    ELSE IF definition.godMode THEN "functionsGodMode"
    ELSE "functions"

\* The script has set the match of the rule of vocabulary and goes on
Past(vocabulary) ==
    \E i, j \in 1..Len(Steps) : Steps[i] = vocabulary /\ Steps[j] = step /\ i < j

\* The match of the rule the script finds for vocabulary
MatchOf(vocabulary) ==
    LET patterns == lslGrammar[LslRule(vocabulary).section]
    IN  patterns[Find(patterns, LslRule(vocabulary).name)].match

\* C25 LSL function classification: a function that is not private is in
\* exactly one of the vocabularies functions, functionsGodMode and
\* functionsDeprecated, the deprecated one if it is deprecated, else the god-mode
\* one if it is god-mode, else the normal one; a private function is in none,
\* whatever its other flags; once the three rules are set, the name of a
\* function is matched by the rule of its vocabulary and by no other.
C25_FunctionClassification ==
    /\ \A i \in 1..Len(lsl.functions) :
        LET definition == lsl.functions[i]
            holding == {v \in FunctionVocabularies :
                            definition.name \in Range(LslVocabulary(lsl, v))}
        IN  holding = IF definition.private THEN {} ELSE {ClassOf(definition)}
    /\ Past("functionsDeprecated") =>
        \A i \in 1..Len(lsl.functions) :
            LET definition == lsl.functions[i]
                matching == {v \in FunctionVocabularies :
                                MatchesWhole(ParseRegex(MatchOf(v)), definition.name, FALSE)}
            IN  matching = IF definition.private THEN {} ELSE {ClassOf(definition)}

C25_Witness ==
    /\ step = "done"
    /\ \E i \in 1..Len(lsl.functions) :
        /\ lsl.functions[i].private
        /\ lsl.functions[i].deprecated
        /\ lsl.functions[i].godMode
    /\ \E i \in 1..Len(lsl.functions) :
        /\ ~lsl.functions[i].private
        /\ lsl.functions[i].deprecated
        /\ lsl.functions[i].godMode
        /\ MatchesWhole(ParseRegex(MatchOf("functionsDeprecated")), lsl.functions[i].name, FALSE)

\* The libraries of the definitions that are not the global one
Namespaced == SelectSeq(slua.libraries, LAMBDA library : library.namespace # Global)

\* The vocabularies that hold the names of kind of a library with this namespace
Holding(namespace, name, kind) ==
    {v \in {"luau", "platform"} :
        namespace \o <<".">> \o name \in Range(SluaVocabulary(slua, v \o kind))}

\* The number of the vocabularies up to the k-th that are not empty
RECURSIVE Rank(_)
Rank(k) ==
    IF k = 0 THEN 0
    ELSE Rank(k - 1) + (IF SluaVocabulary(slua, SluaOrder[k]) # <<>> THEN 1 ELSE 0)

\* What a statement of the SLua section does to the list of the rules
PushesIfNonEmpty ==
    step \in Range(SluaOrder) =>
        /\ step' # "aborted"
        /\ SluaVocabulary(slua, step) = <<>> => standard' = standard
        /\ SluaVocabulary(slua, step) # <<>> =>
               /\ Len(standard') = Len(standard) + 1
               /\ SubSeq(standard', 1, Len(standard)) = standard

\* C26 Guarded SLua compilation: a statement of the SLua section pushes a rule
\* if and only if its vocabulary is not empty, and none of them throws, so
\* createOptimizedRegex is called with non-empty vocabularies only; the rules
\* pushed are those of the non-empty vocabularies, in their order, each matching
\* the members of its vocabulary; every name of a library other than global is,
\* as namespace.name, in exactly one of the Luau and the platform vocabulary of
\* its kind, the platform one if the namespace begins with ll in any case.
C26_GuardedCompilation ==
    /\ [][PushesIfNonEmpty]_vars
    /\ [](Past("platformConstants") =>
            /\ Len(standard) = Rank(Len(SluaOrder))
            /\ \A k \in 1..Len(SluaOrder) :
                LET vocabulary == SluaVocabulary(slua, SluaOrder[k])
                IN  vocabulary # <<>> =>
                        /\ standard[Rank(k)].name = SluaRuleName(SluaOrder[k])
                        /\ \A m \in Range(vocabulary) :
                               MatchAt(ParseRegex(standard[Rank(k)].match), m, 0, FALSE)
                                   = <<Len(m)>>)
    /\ [](\A i \in 1..Len(Namespaced) : \A kind \in {"Functions", "Constants"} :
            LET library == Namespaced[i]
                names == Flatten(IF kind = "Functions" THEN library.functions
                                 ELSE library.constants)
                platform == Len(library.namespace) >= 2
                            /\ library.namespace[1] \in {"l", "L"}
                            /\ library.namespace[2] \in {"l", "L"}
            IN  \A n \in Range(names) :
                    /\ Holding(library.namespace, n, kind)
                           = IF platform THEN {"platform"} ELSE {"luau"}
                    /\ library.namespace \o <<".">> \o n
                           \notin Range(SluaVocabulary(slua, "global" \o kind)))

C26_Witness ==
    /\ step = "done"
    /\ Len(sluaFile.standard_library) = 3
    /\ SluaVocabulary(slua, "globalFunctions") = <<>>
    /\ \E i \in 1..Len(Namespaced) :
        /\ Namespaced[i].namespace = <<"L", "L", "e">>
        /\ Holding(<<"L", "L", "e">>, <<"f", "n">>, "Functions") = {"platform"}
    /\ \E i \in 1..Len(Namespaced) :
        /\ Namespaced[i].namespace = <<"l">>
        /\ Holding(<<"l">>, <<"c">>, "Constants") = {"luau"}

-----------------------------------------------------------------------------
(* The definition synthesizer, src/scripts/synthesize-slua-defs.js *)

\* The value undefined; as a text it reads undefined
Undefined == <<"undefined">>

\* `${value}`
ToText(value) == IF value = Undefined THEN <<"u", "n", "d", "e", "f", "i", "n", "e", "d">> ELSE value

\* The keys of RemovedFunctions, lines 19-24
RemovedFunctions ==
    {<<"S", "e", "t", "T", "i", "m", "e", "r", "E", "v", "e", "n", "t">>,
     <<"R", "e", "s", "e", "t", "T", "i", "m", "e">>,
     <<"G", "e", "t", "A", "n", "d", "R", "e", "s", "e", "t", "T", "i", "m", "e">>,
     <<"S", "e", "t", "M", "e", "m", "o", "r", "y", "L", "i", "m", "i", "t">>}

\* Lines 29-62, the entries of the functions modelled
DuplicateFunctions ==
    (<<"A", "b", "s">> :> <<"m", "a", "t", "h", ".", "a", "b", "s">>)
    @@ (<<"F", "a", "b", "s">> :> <<"m", "a", "t", "h", ".", "f", "a", "b", "s">>)
    @@ (<<"G", "e", "t", "T", "i", "m", "e">> :> <<"o", "s", ".", "c", "l", "o", "c", "k">>)
    @@ (<<"G", "e", "t", "L", "i", "s", "t", "L", "e", "n", "g", "t", "h">> :> <<"#", "t", "a", "b", "l", "e">>)
    @@ (<<"V", "e", "c", "D", "i", "s", "t">> :> <<"v", "e", "c", "t", "o", "r", ".", "m", "a", "g", "n", "i", "t", "u", "d", "e", "(", "v", "1", " ", "-", " ", "v", "2", ")">>)

\* Lines 67-205, the entries of the libraries modelled, in their order
Fastcalls ==
    <<<<"a", "s", "s", "e", "r", "t">>,
      <<"m", "a", "t", "h", ".", "a", "b", "s">>,
      <<"m", "a", "t", "h", ".", "f", "l", "o", "o", "r">>,
      <<"b", "i", "t", "3", "2", ".", "b", "a", "n", "d">>,
      <<"t", "y", "p", "e">>,
      <<"t", "y", "p", "e", "o", "f">>,
      <<"m", "a", "t", "h", ".", "r", "o", "u", "n", "d">>,
      <<"v", "e", "c", "t", "o", "r">>,
      <<"s", "e", "l", "e", "c", "t">>,
      <<"v", "e", "c", "t", "o", "r", ".", "d", "o", "t">>,
      <<"m", "a", "t", "h", ".", "i", "s", "f", "i", "n", "i", "t", "e">>>>

HexDigits ==
    {"0", "1", "2", "3", "4", "5", "6", "7", "8", "9",
     "a", "b", "c", "d", "e", "f", "A", "B", "C", "D", "E", "F"}

\* typeof value === 'string' && /^[0-9a-fA-F]{8}-...-[0-9a-fA-F]{12}$/.test(value)
IsUuidText(value) ==
    /\ value # Undefined
    /\ Len(value) = 36
    /\ \A i \in 1..36 : IF i \in {9, 14, 19, 24} THEN value[i] = "-" ELSE value[i] \in HexDigits

\* Lines 208-222
convertType(type, value) ==
    IF type = <<"s", "t", "r", "i", "n", "g">> /\ IsUuidText(value) THEN <<"u", "u", "i", "d">>
    ELSE IF type = <<"k", "e", "y">> THEN <<"u", "u", "i", "d">>
    ELSE IF type = <<"r", "o", "t", "a", "t", "i", "o", "n">> THEN <<"q", "u", "a", "t", "e", "r", "n", "i", "o", "n">>
    ELSE IF type = <<"i", "n", "t", "e", "g", "e", "r">> THEN <<"n", "u", "m", "b", "e", "r">>
    ELSE IF type = <<"f", "l", "o", "a", "t">> THEN <<"n", "u", "m", "b", "e", "r">>
    ELSE IF type = <<"s", "t", "r", "i", "n", "g">> THEN <<"s", "t", "r", "i", "n", "g">>
    ELSE IF type = <<"v", "e", "c", "t", "o", "r">> THEN <<"v", "e", "c", "t", "o", "r">>
    ELSE IF type = <<"l", "i", "s", "t">> THEN <<"t", "a", "b", "l", "e">>
    ELSE IF type = <<"b", "o", "o", "l", "e", "a", "n">> THEN <<"b", "o", "o", "l", "e", "a", "n">>
    ELSE type

\* object[key], undefined when the object has no such key
Get(object, key) == IF key \in DOMAIN object THEN object[key] ELSE Undefined

\* if(object[key]), for a key that holds true when it is there
Flagged(object, key) == key \in DOMAIN object /\ object[key] = TRUE

\* delete object[key]
Delete(object, key) == [k \in DOMAIN object \ {key} |-> object[k]]

\* object[key] = value
Set(object, key, value) == (key :> value) @@ object

\* A faulty variant of IsRemoved: no function is removed
NeverRemoved(name) == FALSE

\* name in RemovedFunctions
IsRemoved(name) == name \in RemovedFunctions

\* name.substring(2)
Substring2(name) == SubSeq(name, 3, Len(name))

\* Lines 827: the function of DuplicateFunctions carries what it duplicates
MarkDuplicate(name, func) ==
    IF name \in DOMAIN DuplicateFunctions
    THEN Set(func, "duplicates", DuplicateFunctions[name])
    ELSE func

\* Lines 830-838 and 902-910
Simplify(func) ==
    LET a == Delete(Delete(func, "func-id"), "energy")
        b == IF "mono-sleep" \in DOMAIN a
             THEN Delete(Set(a, "sleep", a["mono-sleep"]), "mono-sleep")
             ELSE a
        c == IF "sleep" \in DOMAIN b /\ b.sleep = 0 THEN Delete(b, "sleep") ELSE b
    IN  IF Get(c, "return") = <<"v", "o", "i", "d">> THEN Delete(c, "return") ELSE c

\* Lines 843-851 and 915-923: an argument is an object of one key, its name
ConvertedArguments(arguments) ==
    [i \in 1..Len(arguments) |->
        [name |-> arguments[i].name,
         definition |-> Set(arguments[i].definition, "type",
                            convertType(Get(arguments[i].definition, "type"), Undefined))]]

\* func.arguments.map(arg => `${argumentName}: ${convertType(argumentDefinition.type)}`).join(', ')
ArgumentList(arguments) ==
    Join([i \in 1..Len(arguments) |->
            arguments[i].name \o <<":", " ">>
            \o ToText(convertType(Get(arguments[i].definition, "type"), Undefined))],
         <<",", " ">>)

\* Lines 853-856
LlType(name, func) ==
    <<"f", "u", "n", "c", "t", "i", "o", "n", " ", "l", "l", ".">> \o name \o <<"(">> \o ArgumentList(func.arguments) \o <<")", ":", " ">>
    \o ToText(convertType(Get(func, "return"), Undefined))

\* Lines 925-928
LlcompatType(name, func) ==
    <<"f", "u", "n", "c", "t", "i", "o", "n", " ", "l", "l", ".">> \o name \o <<"(">> \o ArgumentList(func.arguments) \o <<")">>
    \o (IF Get(func, "return") \notin {Undefined, <<>>}
        THEN <<":", " ">> \o ToText(convertType(Get(func, "return"), Undefined))
        ELSE <<>>)

\* Lines 840-857 and 912-929: { name, ...func, arguments, return, type }
Emitted(name, func, type) ==
    [arguments |-> ConvertedArguments(func.arguments),
     return |-> convertType(Get(func, "return"), Undefined),
     type |-> type]
    @@ func @@ [name |-> name]

\* Lines 816-838: what the callback of ll does to func; the entries are [name, func]
AfterLl(entry) ==
    IF Flagged(entry.func, "private") \/ Flagged(entry.func, "deprecated")
       \/ IsRemoved(Substring2(entry.name))
    THEN entry
    ELSE [entry EXCEPT !.func = Simplify(MarkDuplicate(Substring2(entry.name), entry.func))]

\* The callback of ll emits the function
InLl(entry) ==
    ~(Flagged(entry.func, "private") \/ Flagged(entry.func, "deprecated")
      \/ IsRemoved(Substring2(entry.name)))

\* Lines 896-910
AfterLlcompat(entry) ==
    IF Flagged(entry.func, "private") \/ Flagged(entry.func, "deprecated")
    THEN entry
    ELSE [entry EXCEPT !.func = Simplify(entry.func)]

InLlcompat(entry) ==
    ~(Flagged(entry.func, "private") \/ Flagged(entry.func, "deprecated"))

\* Object.entries(lsl.functions).map(...).filter(Boolean) of ll, over the entries
\* as the callback left them
LlFunctions(entries) ==
    LET kept == SelectSeq(entries, InLl)
    IN  [i \in 1..Len(kept) |->
            LET name == Substring2(kept[i].name)
                func == AfterLl(kept[i]).func
            IN  Emitted(name, func, LlType(name, func))]

LlcompatFunctions(entries) ==
    LET kept == SelectSeq(entries, InLlcompat)
    IN  [i \in 1..Len(kept) |->
            LET name == Substring2(kept[i].name)
                func == AfterLlcompat(kept[i]).func
            IN  Emitted(name, func, LlcompatType(name, func))]

\* slua.libraries[libName]: the index of the library, 0 for undefined
LibraryAt(libraries, libName) ==
    IF \E i \in 1..Len(libraries) : libraries[i].namespace = libName
    THEN CHOOSE i \in 1..Len(libraries) : libraries[i].namespace = libName
    ELSE 0

\* The text of an index of an array
IndexText(i) == <<<<"0", "1", "2", "3", "4", "5", "6", "7", "8", "9">>[i + 1]>>

\* array[key] for a text key: the index of the element whose index the key
\* is the text of, 0 for undefined (no name of Fastcalls is length or a method of arrays)
ArrayProperty(array, key) ==
    IF \E i \in 1..Len(array) : i <= 10 /\ key = IndexText(i - 1)
    THEN CHOOSE i \in 1..Len(array) : i <= 10 /\ key = IndexText(i - 1)
    ELSE 0

\* funcName.split('.'), the texts between the dots
RECURSIVE Split(_)
Split(text) ==
    IF \E i \in 1..Len(text) : text[i] = "."
    THEN LET i == CHOOSE k \in 1..Len(text) :
                    text[k] = "." /\ \A j \in 1..(k - 1) : text[j] # "."
         IN  <<SubSeq(text, 1, i - 1)>> \o Split(SubSeq(text, i + 1, Len(text)))
    ELSE <<text>>

\* Lines 1204-1213: one turn of the loop
MarkFastcall(libraries, funcName) ==
    IF "." \in Range(funcName)
    THEN LET libName == Split(funcName)[1]
             shortFuncName == Split(funcName)[2]
             at == LibraryAt(libraries, libName)
         IN  IF at = 0 THEN libraries
             ELSE LET i == ArrayProperty(libraries[at].functions, shortFuncName)
                  IN  IF i = 0 THEN libraries
                      ELSE [libraries EXCEPT ![at].functions[i] = Set(@, "fastcall", TRUE)]
    ELSE LET at == LibraryAt(libraries, Global)
             i == ArrayProperty(libraries[at].functions, funcName)
         IN  IF i = 0 THEN libraries
             ELSE [libraries EXCEPT ![at].functions[i] = Set(@, "fastcall", TRUE)]

\* Lines 1202-1214: the turns from the k-th on
RECURSIVE MarkFastcalls(_, _)
MarkFastcalls(libraries, k) ==
    IF k > Len(Fastcalls) THEN libraries
    ELSE MarkFastcalls(MarkFastcall(libraries, Fastcalls[k]), k + 1)

\* Lines 815-859: the functions of ll; the callback changes the functions of lsl
SynthesizeLl ==
    /\ step = "ll"
    /\ slua' = [slua EXCEPT !.libraries[LibraryAt(slua.libraries, <<"l", "l">>)].functions =
                                LlFunctions(lsl.functions)]
    /\ lsl' = [lsl EXCEPT !.functions = [i \in 1..Len(lsl.functions) |-> AfterLl(lsl.functions[i])]]
    /\ step' = "llcompat"
    /\ UNCHANGED <<lslGrammar, sluaGrammar, standard, lslFile, sluaFile, failure>>
    /\ UNCHANGED callVars
    /\ UNCHANGED restVars

\* Lines 894-931: the functions of llcompat
SynthesizeLlcompat ==
    /\ step = "llcompat"
    /\ slua' = [slua EXCEPT !.libraries[LibraryAt(slua.libraries, <<"l", "l", "c", "o", "m", "p", "a", "t">>)].functions =
                                LlcompatFunctions(lsl.functions)]
    /\ lsl' = [lsl EXCEPT !.functions =
                            [i \in 1..Len(lsl.functions) |-> AfterLlcompat(lsl.functions[i])]]
    /\ step' = "fastcalls"
    /\ UNCHANGED <<lslGrammar, sluaGrammar, standard, lslFile, sluaFile, failure>>
    /\ UNCHANGED callVars
    /\ UNCHANGED restVars

\* Lines 1202-1214
MarkFastcallFunctions ==
    /\ step = "fastcalls"
    /\ slua' = [slua EXCEPT !.libraries = MarkFastcalls(slua.libraries, 1)]
    /\ step' = "synthesized"
    /\ UNCHANGED <<lsl, lslGrammar, sluaGrammar, standard, lslFile, sluaFile, failure>>
    /\ UNCHANGED callVars
    /\ UNCHANGED restVars

NextSynth == SynthesizeLl \/ SynthesizeLlcompat \/ MarkFastcallFunctions

Named(name) == [name |-> name]

\* Lines 640-931, some libraries and functions of each; ll and llcompat are to be made
BaseLibraries ==
    <<[namespace |-> Global,
       functions |-> <<[group |-> "Type Conversion",
                        list |-> <<Named(<<"t", "y", "p", "e">>), Named(<<"t", "y", "p", "e", "o", "f">>), Named(<<"t", "o", "v", "e", "c", "t", "o", "r">>)>>],
                       [group |-> "Error Handling and Debugging",
                        list |-> <<Named(<<"p", "r", "i", "n", "t">>), Named(<<"a", "s", "s", "e", "r", "t">>)>>],
                       [group |-> "Iteration and Selection",
                        list |-> <<Named(<<"n", "e", "x", "t">>), Named(<<"s", "e", "l", "e", "c", "t">>), Named(<<"s", "e", "l", "e", "c", "t">>)>>]>>],
      [namespace |-> <<"m", "a", "t", "h">>,
       functions |-> <<[group |-> "Basic Functions",
                        list |-> <<Named(<<"a", "b", "s">>), Named(<<"f", "l", "o", "o", "r">>), Named(<<"r", "o", "u", "n", "d">>)>>],
                       [group |-> "Trigonometric Functions", list |-> <<Named(<<"n", "o", "i", "s", "e">>)>>]>>],
      [namespace |-> <<"v", "e", "c", "t", "o", "r">>,
       functions |-> <<Named(<<"c", "r", "e", "a", "t", "e">>), Named(<<"d", "o", "t">>)>>],
      [namespace |-> <<"l", "l">>, functions |-> <<>>],
      [namespace |-> <<"l", "l", "b", "a", "s", "e", "6", "4">>,
       functions |-> <<Named(<<"e", "n", "c", "o", "d", "e">>), Named(<<"d", "e", "c", "o", "d", "e">>)>>],
      [namespace |-> <<"l", "l", "c", "o", "m", "p", "a", "t">>, functions |-> <<>>]>>

Argument(name, type) == [name |-> name, definition |-> [type |-> type, tooltip |-> "told"]]

\* The functions the definitions read can hold, as lsl_definitions.yaml gives them
CandidateFunctions ==
    <<[name |-> <<"l", "l", "A", "b", "s">>,
       func |-> [return |-> <<"i", "n", "t", "e", "g", "e", "r">>, arguments |-> <<Argument(<<"v", "a", "l">>, <<"i", "n", "t", "e", "g", "e", "r">>)>>,
                 energy |-> 10, sleep |-> 0] @@ ("func-id" :> 6)],
      [name |-> <<"l", "l", "S", "a", "y">>,
       func |-> [return |-> <<"v", "o", "i", "d">>,
                 arguments |-> <<Argument(<<"c", "h", "a", "n", "n", "e", "l">>, <<"i", "n", "t", "e", "g", "e", "r">>), Argument(<<"m", "s", "g">>, <<"s", "t", "r", "i", "n", "g">>)>>,
                 energy |-> 10, sleep |-> 0]],
      [name |-> <<"l", "l", "S", "e", "t", "T", "i", "m", "e", "r", "E", "v", "e", "n", "t">>,
       func |-> [return |-> <<"v", "o", "i", "d">>, arguments |-> <<Argument(<<"s", "e", "c">>, <<"f", "l", "o", "a", "t">>)>>, energy |-> 10]],
      [name |-> <<"l", "l", "G", "e", "t", "O", "w", "n", "e", "r">>,
       func |-> [return |-> <<"k", "e", "y">>, arguments |-> <<>>, sleep |-> 0]],
      [name |-> <<"l", "l", "E", "m", "a", "i", "l">>,
       func |-> [return |-> <<"v", "o", "i", "d">>,
                 arguments |-> <<Argument(<<"a", "d", "d", "r", "e", "s", "s">>, <<"s", "t", "r", "i", "n", "g">>), Argument(<<"t", "o">>, <<"l", "i", "s", "t">>)>>]
                @@ ("mono-sleep" :> 20)]>>

MaxSynthFunctions == 3

FlagSets == {<<>>, ("private" :> TRUE), ("deprecated" :> TRUE),
             ("private" :> TRUE) @@ ("deprecated" :> TRUE)}

\* The sequences of at most n of the candidates, in their order, with every flag
RECURSIVE FunctionsUpTo(_, _)
FunctionsUpTo(candidates, n) ==
    IF n = 0 \/ candidates = <<>> THEN {<<>>}
    ELSE FunctionsUpTo(Tail(candidates), n)
         \cup {<<[Head(candidates) EXCEPT !.func = flags @@ @]>> \o rest :
                 flags \in FlagSets, rest \in FunctionsUpTo(Tail(candidates), n - 1)}

StartSynth(functions) ==
    /\ strings = Array(<<>>)
    /\ options = Omitted
    /\ pc = "idle"
    /\ uniqueStrings = <<>>
    /\ root = (<<>> :> TrieNode)
    /\ pattern = <<>>
    /\ result = <<>>
    /\ error = ""
    /\ earlier = <<>>
    /\ step = "ll"
    /\ lsl = [functions |-> functions]
    /\ slua = [libraries |-> BaseLibraries]
    /\ lslGrammar = <<>>
    /\ sluaGrammar = <<>>
    /\ standard = <<>>
    /\ lslFile = <<>>
    /\ sluaFile = <<>>
    /\ failure = ""
    /\ NoRest

InitSynth == \E functions \in FunctionsUpTo(CandidateFunctions, MaxSynthFunctions) : StartSynth(functions)

SpecSynth == InitSynth /\ [][NextSynth]_vars

-----------------------------------------------------------------------------
(* The claims on the definition synthesizer *)

\* The functions of a library: its items, and the functions of its groups
RECURSIVE FunctionsOf(_)
FunctionsOf(items) ==
    IF items = <<>> THEN <<>>
    ELSE (IF "list" \in DOMAIN Head(items) THEN Head(items).list ELSE <<Head(items)>>)
         \o FunctionsOf(Tail(items))

\* library.name, the bare name in the global library
QualifiedName(library, function) ==
    IF library.namespace = Global THEN function.name
    ELSE library.namespace \o <<".">> \o function.name

HasFastcall(function) == "fastcall" \in DOMAIN function /\ function.fastcall = TRUE

\* C27 Fastcall marking: after the marking loop, a function of the libraries
\* has fastcall true if and only if its qualified name is listed in Fastcalls.
C27_FastcallMarking ==
    step = "synthesized" =>
        \A i \in 1..Len(slua.libraries) :
            \A function \in Range(FunctionsOf(slua.libraries[i].functions)) :
                HasFastcall(function)
                    <=> QualifiedName(slua.libraries[i], function) \in Range(Fastcalls)

\* The functions of the library of this namespace
Library(namespace) == slua.libraries[LibraryAt(slua.libraries, namespace)].functions

\* The functions of this name in a library
NamedIn(functions, name) == {i \in 1..Len(functions) : functions[i].name = name}

\* The function read is neither private nor deprecated
Public(entry) == ~Flagged(entry.func, "private") /\ ~Flagged(entry.func, "deprecated")

\* C28 Library membership: once ll and llcompat are made, ll holds a function
\* of the LSL definitions, once and under its name without the ll prefix, if
\* and only if it is neither private nor deprecated and that name is not in
\* RemovedFunctions; llcompat holds it if and only if it is neither private
\* nor deprecated, removed or not; the libraries hold nothing else; a function
\* of DuplicateFunctions is in ll and carries what it duplicates in duplicates.
C28_LibraryMembership ==
    step \in {"fastcalls", "synthesized"} =>
        /\ \A i \in 1..Len(lsl.functions) :
            LET entry == lsl.functions[i]
                name == Substring2(entry.name)
            IN  /\ Cardinality(NamedIn(Library(<<"l", "l">>), name))
                       = IF Public(entry) /\ name \notin RemovedFunctions THEN 1 ELSE 0
                /\ Cardinality(NamedIn(Library(<<"l", "l", "c", "o", "m", "p", "a", "t">>), name))
                       = IF Public(entry) THEN 1 ELSE 0
                /\ (Public(entry) /\ name \in DOMAIN DuplicateFunctions) =>
                       \A k \in NamedIn(Library(<<"l", "l">>), name) :
                           /\ "duplicates" \in DOMAIN Library(<<"l", "l">>)[k]
                           /\ Library(<<"l", "l">>)[k].duplicates = DuplicateFunctions[name]
        /\ \A namespace \in {<<"l", "l">>, <<"l", "l", "c", "o", "m", "p", "a", "t">>} :
            \A k \in 1..Len(Library(namespace)) :
                \E i \in 1..Len(lsl.functions) :
                    Substring2(lsl.functions[i].name) = Library(namespace)[k].name

C28_Witness ==
    /\ step = "synthesized"
    /\ \E k \in NamedIn(Library(<<"l", "l">>), <<"A", "b", "s">>) : "duplicates" \in DOMAIN Library(<<"l", "l">>)[k]
    /\ NamedIn(Library(<<"l", "l">>), <<"S", "e", "t", "T", "i", "m", "e", "r", "E", "v", "e", "n", "t">>) = {}
    /\ NamedIn(Library(<<"l", "l", "c", "o", "m", "p", "a", "t">>), <<"S", "e", "t", "T", "i", "m", "e", "r", "E", "v", "e", "n", "t">>) # {}
    /\ \E i \in 1..Len(lsl.functions) : ~Public(lsl.functions[i])

\* The function of this name without its prefix, as the definitions give it
Declared(name) ==
    CandidateFunctions[CHOOSE i \in 1..Len(CandidateFunctions) :
                            Substring2(CandidateFunctions[i].name) = name].func

\* The text holds part
HoldsText(text, part) ==
    \E i \in 0..(Len(text) - Len(part)) : SubSeq(text, i + 1, i + Len(part)) = part

\* The signature of a function of these arguments and this return type
Signature(name, arguments, return) ==
    <<"f", "u", "n", "c", "t", "i", "o", "n", " ", "l", "l", ".">> \o name \o <<"(">>
    \o Join([i \in 1..Len(arguments) |->
                arguments[i].name \o <<":", " ">>
                \o convertType(arguments[i].definition.type, Undefined)],
            <<",", " ">>)
    \o <<")">>
    \o (IF return = <<"v", "o", "i", "d">> THEN <<>> ELSE <<":", " ">> \o convertType(return, Undefined))

\* The signatures of the functions of the library are as the definitions read say
SignaturesOf(namespace) ==
    \A k \in 1..Len(Library(namespace)) :
        LET function == Library(namespace)[k]
            declared == Declared(function.name)
        IN  /\ function.type = Signature(function.name, declared.arguments, declared.return)
            /\ ~HoldsText(function.type, <<"u", "n", "d", "e", "f", "i", "n", "e", "d">>)

\* C29 Synthesized signatures: the type of every function of ll and of
\* llcompat lists each argument with its converted type and ends with the
\* converted return type; there is no return annotation when the LSL return
\* type is void, and the text undefined is in no signature.
C29_SynthesizedSignatures ==
    step \in {"fastcalls", "synthesized"} => SignaturesOf(<<"l", "l">>) /\ SignaturesOf(<<"l", "l", "c", "o", "m", "p", "a", "t">>)

-----------------------------------------------------------------------------
(* The debounced search, src/unnamed/part_000 *)

\* A faulty variant of clearTimeout: the timer stays
KeepTimers(held, handle) == held

\* clearTimeout(timeout): nothing happens when the handle is no id of a timer held
clearTimeout(held, handle) ==
    IF handle.kind = "timer" THEN {t \in held : t.id # handle.id} ELSE held

MaxTime == 4

MaxEvents == 4

MaxWait == 2

Contexts == {"input", "window"}

Values == {"a", "ab"}

\* Lines 66-75: the function debounce returns is called with this and an event
Debounced(context, args) ==
    /\ step = "listening"
    /\ Len(log) < MaxEvents
    /\ timers' = clearTimeout(timers, timeout)
                    \cup {[id |-> nextId, due |-> now + wait, context |-> context, args |-> args]}
    /\ timeout' = [kind |-> "timer", id |-> nextId]
    /\ nextId' = nextId + 1
    /\ log' = Append(log, [kind |-> "call", context |-> context, args |-> args, at |-> now])
    /\ UNCHANGED <<wait, now, search>>
    /\ UNCHANGED callVars
    /\ UNCHANGED scriptVars
    /\ UNCHANGED walkVars

\* Lines 69-72 and 162-164: a timer that is due runs later, which calls func
Later ==
    /\ step = "listening"
    /\ \E t \in timers :
        /\ t.due <= now
        /\ timers' = timers \ {t}
        /\ timeout' = [kind |-> "null", id |-> 0]
        /\ search' = t.args
        /\ log' = Append(log, [kind |-> "func", context |-> t.context, args |-> t.args,
                               at |-> now])
    /\ UNCHANGED <<wait, nextId, now>>
    /\ UNCHANGED callVars
    /\ UNCHANGED scriptVars
    /\ UNCHANGED walkVars

\* Time passes; a timer that is due may run late
Tick ==
    /\ step = "listening"
    /\ now < MaxTime
    /\ now' = now + 1
    /\ UNCHANGED <<wait, timeout, timers, nextId, search, log>>
    /\ UNCHANGED callVars
    /\ UNCHANGED scriptVars
    /\ UNCHANGED walkVars

NextDebounce ==
    \/ \E context \in Contexts, args \in Values : Debounced(context, args)
    \/ Later
    \/ Tick

\* Line 64-65: debounce(func, wait) is called
InitDebounce ==
    /\ strings = Array(<<>>)
    /\ options = Omitted
    /\ pc = "idle"
    /\ uniqueStrings = <<>>
    /\ root = (<<>> :> TrieNode)
    /\ pattern = <<>>
    /\ result = <<>>
    /\ error = ""
    /\ earlier = <<>>
    /\ step = "listening"
    /\ lsl = <<>>
    /\ slua = <<>>
    /\ lslGrammar = <<>>
    /\ sluaGrammar = <<>>
    /\ standard = <<>>
    /\ lslFile = <<>>
    /\ sluaFile = <<>>
    /\ failure = ""
    /\ NoWalk
    /\ wait \in 0..MaxWait
    /\ timeout = [kind |-> "undefined", id |-> 0]
    /\ timers = {}
    /\ nextId = 1
    /\ now = 0
    /\ search = ""
    /\ log = <<>>

SpecDebounce == InitDebounce /\ [][NextDebounce]_vars

\* The step is a call of the debounced function
IsCall == Len(log') = Len(log) + 1 /\ log'[Len(log')].kind = "call"

\* A call leaves no timer of before pending, and one timer of its own
CancelsPending ==
    IsCall =>
        /\ \A t \in timers : t \notin timers'
        /\ Cardinality(timers') = 1

\* C30 Debounce: func is called only by a timer that ran wait or more after
\* the most recent call of the debounced function, with the this and the
\* arguments of that call, and once for that call at most; a call cancels the
\* timer pending; there is never more than one timer pending, and the variable
\* timeout holds its id.
C30_Debounce ==
    /\ [][CancelsPending]_vars
    /\ [](Cardinality(timers) <= 1)
    /\ [](\A t \in timers : timeout = [kind |-> "timer", id |-> t.id])
    /\ [](\A i \in 1..Len(log) :
            log[i].kind = "func" =>
                /\ i > 1
                /\ log[i - 1].kind = "call"
                /\ log[i - 1].context = log[i].context
                /\ log[i - 1].args = log[i].args
                /\ log[i].at >= log[i - 1].at + wait)
    /\ [](Len(log) > 0 /\ log[Len(log)].kind = "func" => search = log[Len(log)].args)

C30_Witness ==
    /\ Len(log) = 4
    /\ wait = 2
    /\ log[1].kind = "call" /\ log[2].kind = "call" /\ log[3].kind = "func" /\ log[4].kind = "call"
    /\ log[2].at < log[1].at + wait
    /\ log[2].args # log[1].args
    /\ log[2].context # log[1].context
    /\ search = log[2].args

====
